---- MODULE Spec2Model ----
(***************************************************************************)
(* Verification model of the Vulpes-Celare detection core (Rust):          *)
(*   - overlap arbitrator     span.rs / interval.rs                        *)
(*   - replacement applicator apply.rs                                     *)
(*   - identifier scanner     scan.rs (SSN, ZIPCODE and DEA families)      *)
(*   - streaming scanner      scan_stream.rs                               *)
(*   - streaming kernel       streaming.rs                                 *)
(*   - interval tree          interval.rs (VulpesIntervalTree)             *)
(*   - fuzzy matcher          fuzzy.rs (VulpesFuzzyMatcher)                *)
(*   - chaos-analysis cache   chaos.rs (ANALYSIS_CACHE)                    *)
(* Each component has its own specification (SpecArb, SpecApply, ...);     *)
(* the variables of the other components stay at their idle value.         *)
(***************************************************************************)
EXTENDS Integers, Sequences, FiniteSets, TLC

VARIABLES
    spans,          \* arbitrator: the input Vec<SpanLite> / Vec<SpanInput>
    arb_pc,         \* arbitrator: "ready", "slow" (span.rs ran), "fast" (interval.rs ran)
    kept_indices,   \* arbitrator: the returned indices (1-based here, 0-based in Rust)
    apply_text,     \* applicator: the `text` argument, a sequence of characters
    replacements,   \* applicator: the `replacements` argument
    apply_out,      \* applicator: the returned String
    apply_pc,       \* applicator: "ready", "done"
    buffer,                     \* kernel: VulpesStreamingKernel.buffer
    mode,                       \* kernel: "sentence" or "immediate"
    buffer_size,                \* kernel: emission threshold, at least 1
    overlap,                    \* kernel: retained-overlap width
    buffer_len_utf16,           \* kernel: cursor, length of the buffer
    last_sentence_end_utf16,    \* kernel: cursor, 0 = none
    last_whitespace_utf16,      \* kernel: cursor, 0 = none
    prev_char,                  \* kernel: Option<char>, "None" or the character
    last_call,                  \* kernel: the last call and what it returned
    scan_text,      \* scanner: the text argument of scan_all_identifiers
    scan_out,       \* scanner: the returned Vec<IdentifierDetection>
    scan_pc,        \* scanner: "ready", "done"
    overlap_utf16,      \* streaming scanner: VulpesStreamingIdentifierScanner.overlap_utf16
    tail,               \* streaming scanner: the retained tail
    tail_len_utf16,     \* streaming scanner: length of the tail
    total_len_utf16,    \* streaming scanner: length of all chunks pushed
    document,           \* streaming scanner: all chunks pushed so far, concatenated
    emitted,            \* streaming scanner: the results of all pushes so far, in call order
    last_push,          \* streaming scanner: what the last push returned and what it discarded
    root,           \* interval tree: IntervalTreeState.root, <<>> for None, <<node>> for Some(node)
    span_map,       \* interval tree: IntervalTreeState.span_map, a function key -> StoredSpan
    size,           \* interval tree: IntervalTreeState.size
    poisoned,       \* interval tree: the poison flag of the Mutex around the state
    pending,        \* interval tree: per thread, the spans an insert_all in progress has yet to insert
    tree_call,      \* interval tree: the last call: its query and what it returned
    terms,              \* fuzzy matcher: the `terms` argument of VulpesFuzzyMatcher::new
    config,             \* fuzzy matcher: VulpesFuzzyMatcher.config
    exact_terms,        \* fuzzy matcher: VulpesFuzzyMatcher.exact_terms
    deletion_index,     \* fuzzy matcher: VulpesFuzzyMatcher.deletion_index, entries in push order
    phonetic_index,     \* fuzzy matcher: VulpesFuzzyMatcher.phonetic_index, entries in push order
    query_cache,        \* fuzzy matcher: the LruCache behind VulpesFuzzyMatcher.query_cache
    lookup_result,      \* fuzzy matcher: the last lookup: its query, its result, where it came from
    analysis_cache,     \* chaos cache: ANALYSIS_CACHE, the fields cache and order of AnalysisCache
    cache_used,         \* chaos cache: the cached keys from the least to the most recently used
    analysed,           \* chaos cache: texts analysed since the cache was last empty, capped
    chaos_call          \* chaos cache: the last analyze_chaos call and what it did to the cache

arbVars == <<spans, arb_pc, kept_indices>>

applyVars == <<apply_text, replacements, apply_out, apply_pc>>

kernelVars == <<buffer, mode, buffer_size, overlap, buffer_len_utf16, last_sentence_end_utf16,
                last_whitespace_utf16, prev_char, last_call>>

scanVars == <<scan_text, scan_out, scan_pc>>

streamVars == <<overlap_utf16, tail, tail_len_utf16, total_len_utf16, document, emitted,
                last_push>>

treeVars == <<root, span_map, size, poisoned, pending, tree_call>>

fuzzyVars == <<terms, config, exact_terms, deletion_index, phonetic_index, query_cache,
               lookup_result>>

chaosVars == <<analysis_cache, cache_used, analysed, chaos_call>>

vars == <<arbVars, applyVars, kernelVars, scanVars, streamVars, treeVars, fuzzyVars, chaosVars>>

(***************************************************************************)
(* The idle value of each component, held while another one is checked     *)
(***************************************************************************)
ArbIdle ==
    /\ spans = <<>>
    /\ arb_pc = "idle"
    /\ kept_indices = <<>>

ApplyIdle ==
    /\ apply_text = <<>>
    /\ replacements = <<>>
    /\ apply_out = <<>>
    /\ apply_pc = "idle"

(***************************************************************************)
(* Generic helpers                                                         *)
(***************************************************************************)
Min(a, b) == IF a <= b THEN a ELSE b

Max(a, b) == IF a >= b THEN a ELSE b

\* u32::saturating_sub
SatSub(a, b) == IF a >= b THEN a - b ELSE 0

\* All orders in which the elements of a finite set can be enumerated
\* (the iteration order of a std HashMap is unspecified).
Orders(S) == {p \in [1..Cardinality(S) -> S] : \A i, j \in DOMAIN p : i # j => p[i] # p[j]}

Range(seq) == {seq[k] : k \in DOMAIN seq}

NoCall == [op |-> "none", chunk |-> <<>>, force |-> FALSE, flush_point |-> 0, some |-> FALSE,
           segment |-> <<>>]

KernelIdle ==
    /\ buffer = <<>>
    /\ mode = "idle"
    /\ buffer_size = 1
    /\ overlap = 0
    /\ buffer_len_utf16 = 0
    /\ last_sentence_end_utf16 = 0
    /\ last_whitespace_utf16 = 0
    /\ prev_char = "None"
    /\ last_call = NoCall

ScanIdle ==
    /\ scan_text = <<>>
    /\ scan_out = <<>>
    /\ scan_pc = "idle"

NoPush == [returned |-> <<>>, discarded |-> <<>>]

StreamIdle ==
    /\ overlap_utf16 = 0
    /\ tail = <<>>
    /\ tail_len_utf16 = 0
    /\ total_len_utf16 = 0
    /\ document = <<>>
    /\ emitted = <<>>
    /\ last_push = NoPush

Threads == {1, 2}

NoTreeCall ==
    [op |-> "none", outcome |-> "ok", query |-> <<>>, spans |-> <<>>, value |-> 0, flag |-> FALSE]

TreeIdle ==
    /\ root = <<>>
    /\ span_map = <<>>
    /\ size = 0
    /\ poisoned = FALSE
    /\ pending = [t \in Threads |-> <<>>]
    /\ tree_call = NoTreeCall

NoConfig ==
    [max_edit_distance |-> 0, enable_phonetic |-> FALSE, min_term_length |-> 0, cache_size |-> 0]

NoLookup == [query |-> <<>>, matched |-> FALSE, term |-> <<>>, distance |-> 0,
             confidence |-> <<0, 1>>, match_type |-> "NONE", cached |-> FALSE]

FuzzyIdle ==
    /\ terms = <<>>
    /\ config = NoConfig
    /\ exact_terms = {}
    /\ deletion_index = <<>>
    /\ phonetic_index = <<>>
    /\ query_cache = [map |-> <<>>, order |-> <<>>]
    /\ lookup_result = NoLookup

NoChaosCall == [text |-> <<>>, hit |-> FALSE, evicted |-> {}, least_recent |-> {}]

\* AnalysisCache::new(100), chaos.rs:108: the cache before the first analyze_chaos
ChaosIdle ==
    /\ analysis_cache = [cache |-> <<>>, order |-> <<>>, max_size |-> 100]
    /\ cache_used = <<>>
    /\ analysed = 0
    /\ chaos_call = NoChaosCall

(***************************************************************************)
(* Text: a Rust String is modelled as the sequence of its characters.      *)
(* "EMOJI" stands for a character outside the BMP (4 UTF-8 bytes, a        *)
(* surrogate pair in UTF-16), every other character here is ASCII.         *)
(***************************************************************************)
\* char::len_utf16
len_utf16(ch) == IF ch = "EMOJI" THEN 2 ELSE 1

\* char::len_utf8
len_utf8(ch) == IF ch = "EMOJI" THEN 4 ELSE 1

RECURSIVE utf16_len(_)
utf16_len(s) == IF s = <<>> THEN 0 ELSE len_utf16(Head(s)) + utf16_len(Tail(s))

\* str::len, in bytes
RECURSIVE byte_len(_)
byte_len(s) == IF s = <<>> THEN 0 ELSE len_utf8(Head(s)) + byte_len(Tail(s))

\* The strings of at most n characters over the alphabet A
Strings(A, n) == UNION {[1..k -> A] : k \in 0..n}

\* s[i..j] by character index (1-based, inclusive), <<>> when i > j
Sub(s, i, j) == IF i > j THEN <<>> ELSE SubSeq(s, i, j)

\* The number of characters that start before byte offset b
CharsBefore(s, b) == Cardinality({k \in 1..Len(s) : byte_len(Sub(s, 1, k - 1)) < b})

\* str::is_char_boundary
is_char_boundary(s, b) == \E k \in 0..Len(s) : byte_len(Sub(s, 1, k)) = b

\* &s[a..b] by byte offsets that are character boundaries
ByteSlice(s, a, b) == Sub(s, CharsBefore(s, a) + 1, CharsBefore(s, b))

(***************************************************************************)
(* Overlap arbitrator: span.rs drop_overlapping_spans and                  *)
(* interval.rs drop_overlapping_spans_fast                                 *)
(***************************************************************************)
MaxPos == 3

MaxSpans == 2

FilterTypes == {"SSN", "PHONE", "FAX", "NAME"}

\* confidence in hundredths (0.5, 0.9)
Confidences == {50, 90}

Priorities == {0, 100}

\* A span of the input. structure = the span's text contains a structure word
\* (contains_structure_word(text)); it only matters for NAME spans.
SpanSet ==
    {s \in [character_start : 0..MaxPos, character_end : 0..MaxPos, filter_type : FilterTypes,
            confidence : Confidences, priority : Priorities, structure : BOOLEAN] :
        /\ s.character_start < s.character_end
        /\ s.structure => s.filter_type = "NAME"}

type_specificity(filter_type) ==
    CASE filter_type = "SSN" -> 100
      [] filter_type = "MRN" -> 95
      [] filter_type = "CREDIT_CARD" -> 90
      [] filter_type \in {"ACCOUNT", "LICENSE", "PASSPORT", "IBAN", "HEALTH_PLAN"} -> 85
      [] filter_type = "EMAIL" -> 80
      [] filter_type \in {"PHONE", "FAX", "IP", "URL", "MAC_ADDRESS", "BITCOIN"} -> 75
      [] filter_type \in {"VEHICLE", "DEVICE", "BIOMETRIC"} -> 70
      [] filter_type = "DATE" -> 60
      [] filter_type = "ZIPCODE" -> 55
      [] filter_type = "ADDRESS" -> 50
      [] filter_type \in {"CITY", "STATE", "COUNTY"} -> 45
      [] filter_type \in {"AGE", "RELATIVE_DATE"} -> 40
      [] filter_type = "PROVIDER_NAME" -> 36
      [] filter_type = "NAME" -> 35
      [] filter_type = "OCCUPATION" -> 30
      [] filter_type = "CUSTOM" -> 20
      [] OTHER -> 25

\* span.rs calculate_score, in thousandths of a point:
\* min(len/50,1)*40 + confidence*30 + min(spec/100,1)*20 + min(priority/100,1)*10
calculate_score(s) ==
    LET len == SatSub(s.character_end, s.character_start)
        length_score == IF s.filter_type = "NAME" /\ s.structure THEN 0
                        ELSE Min(len * 800, 40000)
        confidence_score == s.confidence * 300
        type_score == Min(type_specificity(s.filter_type) * 200, 20000)
        priority_score == Min(s.priority * 100, 10000)
    IN  length_score + confidence_score + type_score + priority_score

\* interval.rs calculate_span_score: no structure-word penalty, no cap on the type score
calculate_span_score(s) ==
    LET length == s.character_end - s.character_start
    IN  Min(length * 800, 40000) + s.confidence * 300
        + type_specificity(s.filter_type) * 200 + Min(s.priority * 100, 10000)

overlaps(a, b) == ~(a.character_end <= b.character_start \/ a.character_start >= b.character_end)

contains(a, b) == a.character_start <= b.character_start /\ a.character_end >= b.character_end

\* STEP 1 of both functions: the map key -> index, folded over the input in order;
\* a later span replaces the stored one only when its confidence is strictly higher.
SpanKey(s) == <<s.character_start, s.character_end, s.filter_type>>

\* (the same fold without the confidence comparison: the first span of a key stays)
RECURSIVE unique_map_keep_first(_, _, _)
unique_map_keep_first(in, i, m) ==
    IF i > Len(in) THEN m
    ELSE LET key == SpanKey(in[i])
         IN  IF \E e \in m : e[1] = key THEN unique_map_keep_first(in, i + 1, m)
             ELSE unique_map_keep_first(in, i + 1, m \cup {<<key, i>>})

RECURSIVE unique_map(_, _, _)
unique_map(in, i, m) ==
    IF i > Len(in) THEN m
    ELSE LET key == SpanKey(in[i])
             hit == {e \in m : e[1] = key}
         IN  IF hit = {} THEN unique_map(in, i + 1, m \cup {<<key, i>>})
             ELSE LET existing == CHOOSE e \in hit : TRUE
                  IN  IF in[existing[2]].confidence < in[i].confidence
                      THEN unique_map(in, i + 1, (m \ hit) \cup {<<key, i>>})
                      ELSE unique_map(in, i + 1, m)

UniqueIndices(in) == {e[2] : e \in unique_map(in, 1, {})}

\* STEP 2 comparators: TRUE when a must come strictly before b.
\* span.rs: scores closer than 0.001 count as equal.
scored_less(in, a, b) ==
    LET sa == calculate_score(in[a])
        sb == calculate_score(in[b])
        la == SatSub(in[a].character_end, in[a].character_start)
        lb == SatSub(in[b].character_end, in[b].character_start)
    IN  IF (IF sa >= sb THEN sa - sb ELSE sb - sa) > 1 THEN sb < sa
        ELSE IF in[a].character_start # in[b].character_start
             THEN in[a].character_start < in[b].character_start
             ELSE lb < la

\* interval.rs: exact comparison of the scores.
unique_spans_less(in, a, b) ==
    LET sa == calculate_span_score(in[a])
        sb == calculate_span_score(in[b])
    IN  IF sa # sb THEN sb < sa
        ELSE IF in[a].character_start # in[b].character_start
             THEN in[a].character_start < in[b].character_start
             ELSE (in[b].character_end - in[b].character_start)
                    < (in[a].character_end - in[a].character_start)

kept_less(in, a, b) == in[a].character_start < in[b].character_start

\* apply.rs: sorted.sort_by(|a, b| b.character_start.cmp(&a.character_start)), descending
\* (the same sort in ascending order of character_start, the wrong way round)
replacements_less_ascending(in, a, b) == in[a].character_start < in[b].character_start

replacements_less(in, a, b) == in[b].character_start < in[a].character_start

\* scan.rs / scan_stream.rs: out.sort_by(|a, b| a.character_start.cmp(&b.character_start))
detections_less(in, a, b) == in[a].character_start < in[b].character_start

\* slice::sort_by is a stable sort: x goes after every element that is not greater than it.
\* The comparator of each sort_by call, by name.
sort_less(cmp, in, a, b) ==
    CASE cmp = "scored" -> scored_less(in, a, b)
      [] cmp = "unique_spans" -> unique_spans_less(in, a, b)
      [] cmp = "kept" -> kept_less(in, a, b)
      [] cmp = "replacements" -> replacements_less(in, a, b)
      [] cmp = "detections" -> detections_less(in, a, b)

RECURSIVE InsertStable(_, _, _, _)
InsertStable(cmp, in, sorted, x) ==
    IF sorted = <<>> THEN <<x>>
    ELSE IF sort_less(cmp, in, x, Head(sorted)) THEN <<x>> \o sorted
    ELSE <<Head(sorted)>> \o InsertStable(cmp, in, Tail(sorted), x)

RECURSIVE SortStable(_, _, _, _)
SortStable(cmp, in, seq, acc) ==
    IF seq = <<>> THEN acc
    ELSE SortStable(cmp, in, Tail(seq), InsertStable(cmp, in, acc, Head(seq)))

\* STEP 3, the inner loop over kept: what happens to candidate c.
\* Result: <<should_keep, replace_idx>> (replace_idx = 0 for None).
RECURSIVE inner_loop(_, _, _, _)
inner_loop(in, kept, c, i) ==
    IF i > Len(kept) THEN <<TRUE, 0>>
    ELSE LET cand == in[c]
             existing == in[kept[i]]
         IN  IF ~overlaps(cand, existing) THEN inner_loop(in, kept, c, i + 1)
             ELSE IF contains(cand, existing)
                  THEN IF type_specificity(cand.filter_type) <= type_specificity(existing.filter_type)
                       THEN <<FALSE, 0>>
                       ELSE inner_loop(in, kept, c, i + 1)
             ELSE IF contains(existing, cand)
                  THEN IF type_specificity(cand.filter_type) > type_specificity(existing.filter_type)
                          /\ cand.confidence >= 90
                       THEN <<TRUE, i>>
                       ELSE <<FALSE, 0>>
             ELSE <<FALSE, 0>>

RECURSIVE greedy(_, _, _)
greedy(in, cands, kept) ==
    IF cands = <<>> THEN kept
    ELSE LET c == Head(cands)
             r == inner_loop(in, kept, c, 1)
         IN  IF r[2] # 0 THEN greedy(in, Tail(cands), [kept EXCEPT ![r[2]] = c])
             ELSE IF r[1] THEN greedy(in, Tail(cands), Append(kept, c))
             ELSE greedy(in, Tail(cands), kept)

\* The whole function, for one iteration order `order` of the de-duplicated map.
drop_overlapping(cmp, in, order) ==
    IF Len(in) = 0 THEN <<>>
    ELSE IF Len(in) = 1 THEN <<1>>
    ELSE IF Len(order) = 1 THEN <<order[1]>>
    ELSE SortStable("kept", in, greedy(in, SortStable(cmp, in, order, <<>>), <<>>), <<>>)

ArbInit ==
    /\ ApplyIdle
    /\ KernelIdle
    /\ ScanIdle
    /\ StreamIdle
    /\ TreeIdle
    /\ FuzzyIdle
    /\ ChaosIdle
    /\ spans \in UNION {[1..n -> SpanSet] : n \in 0..MaxSpans}
    /\ arb_pc = "ready"
    /\ kept_indices = <<>>

\* span.rs drop_overlapping_spans(spans)
drop_overlapping_spans ==
    /\ arb_pc = "ready"
    /\ \E order \in Orders(UniqueIndices(spans)) :
          kept_indices' = drop_overlapping("scored", spans, order)
    /\ arb_pc' = "slow"
    /\ UNCHANGED <<spans, applyVars, kernelVars, scanVars, streamVars, treeVars, fuzzyVars, chaosVars>>

\* interval.rs drop_overlapping_spans_fast(spans)
drop_overlapping_spans_fast ==
    /\ arb_pc = "ready"
    /\ \E order \in Orders(UniqueIndices(spans)) :
          kept_indices' = drop_overlapping("unique_spans", spans, order)
    /\ arb_pc' = "fast"
    /\ UNCHANGED <<spans, applyVars, kernelVars, scanVars, streamVars, treeVars, fuzzyVars, chaosVars>>

ArbNext == drop_overlapping_spans \/ drop_overlapping_spans_fast

SpecArb == ArbInit /\ [][ArbNext]_vars

\* C1: the spans at the indices the arbitrator returns are pairwise non-overlapping.
C1_OutputNonOverlapping ==
    arb_pc \in {"slow", "fast"} =>
        \A i, j \in DOMAIN kept_indices :
            i # j => ~(/\ spans[kept_indices[i]].character_start < spans[kept_indices[j]].character_end
                       /\ spans[kept_indices[j]].character_start < spans[kept_indices[i]].character_end)

\* C14: for an input of two spans A and B where A contains B (A.start <= B.start and
\* A.end >= B.end), B's type is strictly more specific than A's and B's confidence is
\* at least 0.9, the arbitrator returns only B, whatever the priorities, A's confidence
\* and the input order.
C14_ContainedSpecificWins ==
    (arb_pc \in {"slow", "fast"} /\ Len(spans) = 2) =>
        \A a, b \in 1..2 :
            (/\ a # b
             /\ contains(spans[a], spans[b])
             /\ type_specificity(spans[b].filter_type) > type_specificity(spans[a].filter_type)
             /\ spans[b].confidence >= 90)
            => kept_indices = <<b>>

\* C15: a returned span has the highest confidence among the input spans with its
\* (start, end, filter_type), and no two returned spans have the same (start, end, filter_type).
C15_HighestConfidencePerKey ==
    arb_pc \in {"slow", "fast"} =>
        /\ \A k \in DOMAIN kept_indices : \A i \in DOMAIN spans :
               SpanKey(spans[i]) = SpanKey(spans[kept_indices[k]])
                   => spans[i].confidence <= spans[kept_indices[k]].confidence
        /\ \A k, l \in DOMAIN kept_indices :
               k # l => SpanKey(spans[kept_indices[k]]) # SpanKey(spans[kept_indices[l]])

\* two spans of one key, the second of higher confidence, and only the second is returned
C15_Witness ==
    /\ arb_pc \in {"slow", "fast"}
    /\ Len(spans) = 2
    /\ SpanKey(spans[1]) = SpanKey(spans[2])
    /\ spans[1].confidence < spans[2].confidence
    /\ kept_indices = <<2>>

\* C29: the arbitrator is deterministic: the indices returned for an input are the same
\* whatever the iteration order of the de-duplicated map, also when distinct spans tie on
\* score, start and length.
C29_ArbitratorDeterministic ==
    /\ arb_pc = "slow" =>
          \A order \in Orders(UniqueIndices(spans)) :
              drop_overlapping("scored", spans, order) = kept_indices
    /\ arb_pc = "fast" =>
          \A order \in Orders(UniqueIndices(spans)) :
              drop_overlapping("unique_spans", spans, order) = kept_indices

\* two spans of different keys that neither function can tell apart by score, start or length
TiedSpans ==
    /\ Len(spans) = 2
    /\ SpanKey(spans[1]) # SpanKey(spans[2])
    /\ spans[1].character_start = spans[2].character_start
    /\ spans[1].character_end = spans[2].character_end
    /\ calculate_score(spans[1]) = calculate_score(spans[2])
    /\ calculate_span_score(spans[1]) = calculate_span_score(spans[2])

\* C30: the two implementations agree: the indices drop_overlapping_spans_fast returns for
\* a span list are indices drop_overlapping_spans returns for it (under some iteration
\* order of its map), and the other way round.
C30_FastAgreesWithSlow ==
    /\ arb_pc = "fast" =>
          \E order \in Orders(UniqueIndices(spans)) :
              drop_overlapping("scored", spans, order) = kept_indices
    /\ arb_pc = "slow" =>
          \E order \in Orders(UniqueIndices(spans)) :
              drop_overlapping("unique_spans", spans, order) = kept_indices

\* the same for inputs without a NAME span whose text holds a structure word: the scores
\* of the two functions are then equal
C30_AgreeWithoutStructureWords ==
    (\A i \in DOMAIN spans : ~spans[i].structure) => C30_FastAgreesWithSlow

(***************************************************************************)
(* Replacement applicator: apply.rs                                        *)
(***************************************************************************)
MaxTextLen == 2

MaxReplacements == 2

ApplyAlphabet == {"a", "EMOJI"}

ReplacementStrings == {<<>>, <<"x", "y">>}

\* the characters of the text that start at a UTF-16 offset in [start, end)
CoveredBy(text, start, end) ==
    LET at == {k \in 1..Len(text) : /\ start <= utf16_len(Sub(text, 1, k - 1))
                                    /\ utf16_len(Sub(text, 1, k - 1)) < end}
    IN  IF at = {} THEN <<>>
        ELSE Sub(text, CHOOSE k \in at : \A j \in at : k <= j, CHOOSE k \in at : \A j \in at : j <= k)

\* Replacement { character_start, character_end, replacement }: the non-empty UTF-16
\* ranges inside the text, on a character boundary or not, with a replacement of
\* ReplacementStrings or the characters the range covers
ReplacementSet(text) ==
    {r \in [character_start : 0..utf16_len(text), character_end : 0..utf16_len(text),
            replacement : ReplacementStrings \cup {Sub(text, i, j) : i, j \in 1..Len(text)}] :
        /\ r.character_start < r.character_end
        /\ r.replacement \in ReplacementStrings
                                \cup {CoveredBy(text, r.character_start, r.character_end)}}

\* build_utf16_to_byte_map before the sort: (0,0), one (u16_pos, byte_pos) per character,
\* then (total u16, text.len())
map_entries(text) ==
    <<<<0, 0>>>>
    \o [k \in 1..Len(text) |-> <<utf16_len(Sub(text, 1, k - 1)), byte_len(Sub(text, 1, k - 1))>>]
    \o <<<<utf16_len(text), byte_len(text)>>>>

\* map.sort_by_key(u); map.dedup_by_key(u): the entries are pushed in ascending u already,
\* dedup keeps the first entry of each run of equal u
RECURSIVE dedup_by_key(_, _)
dedup_by_key(m, acc) ==
    IF m = <<>> THEN acc
    ELSE IF acc # <<>> /\ acc[Len(acc)][1] = Head(m)[1] THEN dedup_by_key(Tail(m), acc)
    ELSE dedup_by_key(Tail(m), Append(acc, Head(m)))

build_utf16_to_byte_map(text) == dedup_by_key(map_entries(text), <<>>)

\* binary_search_by_key: Ok(i) -> map[i].1; Err(i) -> 0 when i = 0, else map[i - 1].1
utf16_to_byte(map, u16_pos) ==
    IF \E i \in DOMAIN map : map[i][1] = u16_pos
    THEN map[CHOOSE i \in DOMAIN map : map[i][1] = u16_pos][2]
    ELSE LET i == Cardinality({k \in DOMAIN map : map[k][1] < u16_pos})
         IN  IF i = 0 THEN 0 ELSE map[i][2]

\* (the same, putting the replacement in front of the range and leaving the range in place)
apply_one_inserting(map, out, r) ==
    LET start_b == Min(utf16_to_byte(map, r.character_start), byte_len(out))
    IN  IF ~is_char_boundary(out, start_b) THEN out
        ELSE ByteSlice(out, 0, start_b) \o r.replacement \o ByteSlice(out, start_b, byte_len(out))

\* The body of the loop for one replacement r on the current `out`
apply_one(map, out, r) ==
    LET start_u16 == r.character_start
        end_u16 == r.character_end
        start_b == Min(utf16_to_byte(map, start_u16), byte_len(out))
        end_b == Min(utf16_to_byte(map, end_u16), byte_len(out))
    IN  IF end_u16 <= start_u16 THEN out
        ELSE IF end_b <= start_b THEN out
        ELSE IF ~is_char_boundary(out, start_b) \/ ~is_char_boundary(out, end_b) THEN out
        ELSE ByteSlice(out, 0, start_b) \o r.replacement \o ByteSlice(out, end_b, byte_len(out))

RECURSIVE apply_loop(_, _, _, _)
apply_loop(map, out, rs, sorted) ==
    IF sorted = <<>> THEN out
    ELSE apply_loop(map, apply_one(map, out, rs[Head(sorted)]), rs, Tail(sorted))

apply_replacements(text, rs) ==
    IF text = <<>> \/ rs = <<>> THEN text
    ELSE apply_loop(build_utf16_to_byte_map(text), text, rs,
                    SortStable("replacements", rs, [i \in 1..Len(rs) |-> i], <<>>))

ApplyInit ==
    /\ ArbIdle
    /\ KernelIdle
    /\ ScanIdle
    /\ StreamIdle
    /\ TreeIdle
    /\ FuzzyIdle
    /\ ChaosIdle
    /\ apply_text \in Strings(ApplyAlphabet, MaxTextLen)
    /\ replacements \in UNION {[1..n -> ReplacementSet(apply_text)] : n \in 0..MaxReplacements}
    /\ apply_out = <<>>
    /\ apply_pc = "ready"

ApplyReplacements ==
    /\ apply_pc = "ready"
    /\ apply_out' = apply_replacements(apply_text, replacements)
    /\ apply_pc' = "done"
    /\ UNCHANGED <<apply_text, replacements, arbVars, kernelVars, scanVars, streamVars,
                   treeVars, fuzzyVars, chaosVars>>

ApplyNext == ApplyReplacements

SpecApply == ApplyInit /\ [][ApplyNext]_vars

\* A UTF-16 offset that is a character boundary of the text (0, the end, or between characters)
OnBoundary(text, u) == \E k \in 0..Len(text) : utf16_len(Sub(text, 1, k)) = u

ValidReplacement(text, r) ==
    /\ r.character_start < r.character_end
    /\ r.character_end <= utf16_len(text)
    /\ OnBoundary(text, r.character_start)
    /\ OnBoundary(text, r.character_end)

ValidReplacements(text, rs) ==
    /\ \A i \in DOMAIN rs : ValidReplacement(text, rs[i])
    /\ \A i, j \in DOMAIN rs :
          i # j => (rs[i].character_end <= rs[j].character_start
                    \/ rs[j].character_end <= rs[i].character_start)

\* The text with each range substituted, read left to right from character k on:
\* at the start of a range emit its replacement and jump to the range's end.
RECURSIVE Substituted(_, _, _)
Substituted(text, rs, k) ==
    IF k > Len(text) THEN <<>>
    ELSE LET u == utf16_len(Sub(text, 1, k - 1))
             here == {i \in DOMAIN rs : rs[i].character_start = u}
         IN  IF here = {} THEN <<text[k]>> \o Substituted(text, rs, k + 1)
             ELSE LET r == rs[CHOOSE i \in here : TRUE]
                      next == 1 + Cardinality({j \in 1..Len(text) :
                                                  utf16_len(Sub(text, 1, j - 1)) < r.character_end})
                  IN  r.replacement \o Substituted(text, rs, next)

\* C4: with non-empty, on-boundary, pairwise non-overlapping ranges, apply_replacements
\* returns the text with exactly each range substituted, whatever the order of the list.
C4_ApplySubstitutesRanges ==
    (apply_pc = "done" /\ ValidReplacements(apply_text, replacements)) =>
        apply_out = Substituted(apply_text, replacements, 1)

\* Two valid replacements given in ascending order on a text with a surrogate pair,
\* one of them changing the length
C4_Witness ==
    /\ apply_pc = "done"
    /\ ValidReplacements(apply_text, replacements)
    /\ Len(replacements) = 2
    /\ replacements[1].character_start < replacements[2].character_start
    /\ "EMOJI" \in {apply_text[k] : k \in DOMAIN apply_text}
    /\ apply_out # apply_text

\* A UTF-16 offset inside the text that falls between the two code units of a surrogate pair
InsidePair(text, u) == u < utf16_len(text) /\ ~OnBoundary(text, u)

\* C5: a replacement with an offset off a character boundary is skipped without changing
\* the text, the others are applied: the result is that of the call without them.
C5_OffBoundarySkipped ==
    apply_pc = "done" =>
        apply_out = apply_replacements(apply_text,
                        SelectSeq(replacements,
                                  LAMBDA r : ~InsidePair(apply_text, r.character_start)
                                             /\ ~InsidePair(apply_text, r.character_end)))

\* a replacement that equals the substring its range covers: the range lies on character
\* boundaries of the text and the replacement is the characters between them
IdentityReplacement(text, r) ==
    /\ ValidReplacement(text, r)
    /\ r.replacement = CoveredBy(text, r.character_start, r.character_end)

\* C23: when every replacement equals the substring it covers, apply_replacements returns
\* the input text, and applying the same set to the result returns it again, also when
\* the ranges overlap or repeat.
C23_IdentityReplacementsIdempotent ==
    (apply_pc = "done" /\ \A i \in DOMAIN replacements :
                             IdentityReplacement(apply_text, replacements[i])) =>
        /\ apply_out = apply_text
        /\ apply_replacements(apply_out, replacements) = apply_out

\* two overlapping identity replacements on a text with a surrogate pair
C23_Witness ==
    /\ apply_pc = "done"
    /\ Len(replacements) = 2
    /\ \A i \in DOMAIN replacements : IdentityReplacement(apply_text, replacements[i])
    /\ replacements[1].character_start < replacements[2].character_start
    /\ replacements[2].character_start < replacements[1].character_end
    /\ "EMOJI" \in {apply_text[k] : k \in DOMAIN apply_text}
    /\ apply_out = apply_text

(***************************************************************************)
(* Streaming kernel: streaming.rs                                          *)
(***************************************************************************)
MaxBufferSize == 2

MaxOverlap == 2

MaxBufferLen == 5

MaxChunkLen == 2

Modes == {"sentence", "immediate"}

KernelAlphabet == {"a", " ", ".", "EMOJI"}

\* char::is_whitespace
is_whitespace(ch) == ch = " "

\* prev == '.' || prev == '!' || prev == '?'
is_end(ch) == ch \in {".", "!", "?"}

\* byte_index_at_utf16(s, target_u16), as the number of characters before the byte
\* index it returns; u16_pos is the offset of character k
RECURSIVE byte_index_at_utf16_from(_, _, _, _)
byte_index_at_utf16_from(s, target_u16, k, u16_pos) ==
    IF k > Len(s) THEN Len(s)
    ELSE LET next == u16_pos + len_utf16(s[k])
         IN  IF next > target_u16 THEN k - 1
             ELSE IF next = target_u16 THEN k
             ELSE byte_index_at_utf16_from(s, target_u16, k + 1, next)

byte_index_at_utf16(s, target_u16) ==
    IF target_u16 = 0 THEN 0 ELSE byte_index_at_utf16_from(s, target_u16, 1, 0)

\* The loop of push over the characters of the chunk; st holds the four fields it updates
RECURSIVE push_chars(_, _)
push_chars(st, chunk) ==
    IF chunk = <<>> THEN st
    ELSE LET ch == Head(chunk)
             next_u16 == st.len + len_utf16(ch)
             ws == IF is_whitespace(ch) THEN next_u16 ELSE st.ws
             se == IF st.prev # "None" /\ is_end(st.prev) /\ is_whitespace(ch)
                   THEN st.len ELSE st.se
         IN  push_chars([len |-> next_u16, ws |-> ws, se |-> se, prev |-> ch], Tail(chunk))

\* flush_point = self.buffer_len_utf16 whatever the mode: everything buffered is flushed
whole_buffer(force) == buffer_len_utf16

\* flush_point = self.buffer_size whatever the mode: always the hard cut
hard_cut(force) == buffer_size

\* The flush point pop_segment chooses (0 = nothing to flush)
flush_point_of(force) ==
    LET chosen ==
            IF force THEN buffer_len_utf16
            ELSE IF mode = "sentence"
                 THEN (IF last_sentence_end_utf16 > 0 THEN last_sentence_end_utf16 ELSE 0)
            ELSE IF buffer_len_utf16 >= buffer_size
                 THEN (IF last_whitespace_utf16 > 0 /\ last_whitespace_utf16 <= buffer_size
                       THEN last_whitespace_utf16 ELSE buffer_size)
            ELSE 0
    IN  IF ~force /\ chosen = 0 /\ buffer_len_utf16 >= buffer_size * 2
        THEN buffer_size ELSE chosen

\* stable_end = flush_point also when not forced: nothing is held back
no_overlap_kept(force) == flush_point_of(force)

stable_end_of(force) ==
    IF force THEN flush_point_of(force) ELSE SatSub(flush_point_of(force), overlap)

LastChar(s) == IF s = <<>> THEN "None" ELSE s[Len(s)]

\* (the same, starting one character after the cut)
remaining_past_cut(s, byte_end) == Sub(s, byte_end + 2, Len(s))

\* self.buffer[byte_end..], byte_end given as the number of characters before it
remaining_of(s, byte_end) == Sub(s, byte_end + 1, Len(s))

KernelInit ==
    /\ ArbIdle
    /\ ApplyIdle
    /\ ScanIdle
    /\ StreamIdle
    /\ TreeIdle
    /\ FuzzyIdle
    /\ ChaosIdle
    /\ buffer = <<>>
    /\ mode \in Modes
    /\ \E requested \in 0..MaxBufferSize : buffer_size = Max(requested, 1)
    /\ overlap \in 0..MaxOverlap
    /\ buffer_len_utf16 = 0
    /\ last_sentence_end_utf16 = 0
    /\ last_whitespace_utf16 = 0
    /\ prev_char = "None"
    /\ last_call = NoCall

\* VulpesStreamingKernel::push(chunk), chunk non-empty (an empty chunk returns at once)
KernelPush ==
    \E chunk \in Strings(KernelAlphabet, MaxChunkLen) \ {<<>>} :
        /\ buffer_len_utf16 + utf16_len(chunk) <= MaxBufferLen
        /\ LET st == push_chars([len |-> buffer_len_utf16, ws |-> last_whitespace_utf16,
                                 se |-> last_sentence_end_utf16, prev |-> prev_char], chunk)
           IN  /\ buffer_len_utf16' = st.len
               /\ last_whitespace_utf16' = st.ws
               /\ last_sentence_end_utf16' = st.se
               /\ prev_char' = st.prev
        /\ buffer' = buffer \o chunk
        /\ last_call' = [NoCall EXCEPT !.op = "push", !.chunk = chunk]
        /\ UNCHANGED <<mode, buffer_size, overlap, arbVars, applyVars, scanVars, streamVars,
                       treeVars, fuzzyVars, chaosVars>>

\* VulpesStreamingKernel::pop_segment(force)
KernelPopSegment ==
    \E force \in BOOLEAN :
        LET flush_point == flush_point_of(force)
            stable_end == stable_end_of(force)
            byte_end == byte_index_at_utf16(buffer, stable_end)
            remaining == remaining_of(buffer, byte_end)
            call == [op |-> "pop", chunk |-> <<>>, force |-> force, flush_point |-> flush_point,
                     some |-> FALSE, segment |-> <<>>]
        IN  /\ UNCHANGED <<mode, buffer_size, overlap, arbVars, applyVars, scanVars, streamVars,
                           treeVars, fuzzyVars, chaosVars>>
            /\ IF buffer = <<>>
               THEN /\ last_call' = [call EXCEPT !.flush_point = 0]
                    /\ UNCHANGED <<buffer, buffer_len_utf16, last_sentence_end_utf16,
                                   last_whitespace_utf16, prev_char>>
               ELSE IF flush_point = 0 \/ stable_end = 0
               THEN /\ last_call' = call
                    /\ UNCHANGED <<buffer, buffer_len_utf16, last_sentence_end_utf16,
                                   last_whitespace_utf16, prev_char>>
               ELSE /\ last_call' = [call EXCEPT !.some = TRUE,
                                                 !.segment = Sub(buffer, 1, byte_end)]
                    /\ buffer' = remaining
                    /\ buffer_len_utf16' = utf16_len(remaining)
                    /\ last_sentence_end_utf16' =
                          IF force THEN 0 ELSE SatSub(last_sentence_end_utf16, stable_end)
                    /\ last_whitespace_utf16' =
                          IF force THEN 0 ELSE SatSub(last_whitespace_utf16, stable_end)
                    /\ prev_char' = LastChar(remaining)

\* VulpesStreamingKernel::reset()
KernelReset ==
    /\ buffer' = <<>>
    /\ buffer_len_utf16' = 0
    /\ last_sentence_end_utf16' = 0
    /\ last_whitespace_utf16' = 0
    /\ prev_char' = "None"
    /\ last_call' = [NoCall EXCEPT !.op = "reset"]
    /\ UNCHANGED <<mode, buffer_size, overlap, arbVars, applyVars, scanVars, streamVars,
                   treeVars, fuzzyVars, chaosVars>>

KernelNext == KernelPush \/ KernelPopSegment \/ KernelReset

SpecKernel == KernelInit /\ [][KernelNext]_vars

\* C9: whenever the buffer exceeds 2*buffer_size, a non-forced pop_segment returns a segment.
C9_SafetyValveReturnsSegment ==
    [][(last_call'.op = "pop" /\ ~last_call'.force /\ buffer_len_utf16 > 2 * buffer_size)
         => last_call'.some]_vars

\* The whitespace positions of s (offset just after the whitespace, as the cursor counts)
\* that are <= limit
WhitespaceUpTo(s, limit) ==
    {utf16_len(Sub(s, 1, k)) : k \in {j \in DOMAIN s : is_whitespace(s[j])}} \cap 0..limit

SetMax(S) == CHOOSE x \in S : \A y \in S : y <= x

\* C10: in immediate mode with at least buffer_size units buffered, a non-forced pop_segment
\* flushes at the last whitespace <= buffer_size, at buffer_size only when there is none.
C10_ImmediateCutsAtLastWhitespace ==
    [][(last_call'.op = "pop" /\ ~last_call'.force /\ mode = "immediate"
          /\ buffer_len_utf16 >= buffer_size)
         => last_call'.flush_point =
               (IF WhitespaceUpTo(buffer, buffer_size) # {}
                THEN SetMax(WhitespaceUpTo(buffer, buffer_size)) ELSE buffer_size)]_vars

\* A non-forced pop_segment in sentence mode while a sentence end is buffered
SentencePop ==
    /\ mode = "sentence"
    /\ last_sentence_end_utf16 > 0
    /\ last_call'.op = "pop"
    /\ ~last_call'.force

\* C11 as stated: in sentence mode with a sentence end buffered, a non-forced pop_segment
\* returns the buffer prefix up to last_sentence_end.
C11_SegmentUpToSentenceEnd ==
    [][SentencePop =>
          /\ last_call'.some
          /\ utf16_len(last_call'.segment) = last_sentence_end_utf16]_vars

\* C11: in sentence mode with a sentence end buffered, a non-forced pop_segment returns the
\* buffer prefix up to last_sentence_end - overlap (whole characters only), and nothing
\* when the sentence end is not past the overlap; with overlap = 0 the segment ends just
\* after a '.', '!' or '?' and the rest of the buffer starts with the whitespace after it.
C11_SegmentUpToSentenceEndLessOverlap ==
    [][SentencePop =>
          IF last_sentence_end_utf16 > overlap
          THEN /\ last_call'.some
               /\ last_call'.segment =
                     Sub(buffer, 1,
                         byte_index_at_utf16(buffer, last_sentence_end_utf16 - overlap))
               /\ last_call'.segment \o buffer' = buffer
               /\ overlap = 0 =>
                     /\ last_call'.segment # <<>>
                     /\ is_end(LastChar(last_call'.segment))
                     /\ buffer' # <<>>
                     /\ is_whitespace(buffer'[1])
          ELSE /\ ~last_call'.some
               /\ buffer' = buffer]_vars

\* A non-forced pop_segment in sentence mode has just returned a segment that ends at a
\* sentence end
C11_Witness ==
    /\ mode = "sentence"
    /\ last_call.op = "pop"
    /\ ~last_call.force
    /\ last_call.some
    /\ is_end(LastChar(last_call.segment))
    /\ buffer # <<>>
    /\ is_whitespace(buffer[1])

\* C12: after a non-forced pop_segment that returns a segment, at least `overlap` units
\* remain buffered, and the segment stops at least `overlap` units before the flush point.
C12_OverlapRetained ==
    (last_call.op = "pop" /\ ~last_call.force /\ last_call.some) =>
        /\ utf16_len(buffer) >= overlap
        /\ utf16_len(last_call.segment) + overlap <= last_call.flush_point

\* A non-forced pop_segment with a positive overlap has just returned a non-empty segment
C12_Witness ==
    /\ last_call.op = "pop"
    /\ ~last_call.force
    /\ last_call.some
    /\ last_call.segment # <<>>
    /\ overlap > 0

\* C13: pop_segment(true) on a non-empty buffer returns the whole buffer and leaves the
\* buffer empty with the three cursors at 0; on an empty buffer every pop_segment returns
\* None and changes nothing, so None is returned until the next push.
C13_ForceFlushesEverything ==
    [][/\ (last_call'.op = "pop" /\ last_call'.force /\ buffer # <<>>) =>
             /\ last_call'.some
             /\ last_call'.segment = buffer
             /\ buffer' = <<>>
             /\ buffer_len_utf16' = 0
             /\ last_sentence_end_utf16' = 0
             /\ last_whitespace_utf16' = 0
       /\ (last_call'.op = "pop" /\ buffer = <<>>) =>
             /\ ~last_call'.some
             /\ UNCHANGED <<buffer, buffer_len_utf16, last_sentence_end_utf16,
                            last_whitespace_utf16>>]_vars

\* pop_segment(true) has just returned a buffer that held a sentence end and whitespace
C13_Witness ==
    /\ last_call.op = "pop"
    /\ last_call.force
    /\ last_call.some
    /\ \E k \in DOMAIN last_call.segment : is_whitespace(last_call.segment[k])
    /\ \E k \in 2..Len(last_call.segment) :
          is_end(last_call.segment[k - 1]) /\ is_whitespace(last_call.segment[k])
    /\ buffer = <<>>

\* C26: the segments returned, in order, followed by the remaining buffer are the chunks
\* pushed, in order: a push appends its chunk to the buffer, a pop_segment that returns a
\* segment takes it off the front of the buffer, and one that returns None changes nothing
\* (any mode, forced or not).
C26_NothingLostOrDuplicated ==
    [][/\ last_call'.op = "push" => buffer' = buffer \o last_call'.chunk
       /\ (last_call'.op = "pop" /\ last_call'.some) => last_call'.segment \o buffer' = buffer
       /\ (last_call'.op = "pop" /\ ~last_call'.some) =>
             UNCHANGED <<buffer, mode, buffer_size, overlap, buffer_len_utf16,
                         last_sentence_end_utf16, last_whitespace_utf16, prev_char>>]_vars

\* a non-forced pop cut a buffer that holds a surrogate pair in two non-empty parts
C26_Witness ==
    /\ last_call.op = "pop"
    /\ ~last_call.force
    /\ last_call.some
    /\ last_call.segment # <<>>
    /\ buffer # <<>>
    /\ "EMOJI" \in Range(last_call.segment \o buffer)

\* C27: every segment pop_segment returns is non-empty, also when the cut point falls
\* inside a surrogate pair, so each returning call shortens the buffer and, with no
\* further push, non-forced calls return None after finitely many calls.
C27_SegmentsNonEmpty ==
    [][(last_call'.op = "pop" /\ last_call'.some) =>
          /\ last_call'.segment # <<>>
          /\ Len(buffer') < Len(buffer)]_vars

\* a non-forced pop_segment returns a segment and leaves the kernel as it was: every
\* further call does the same
PopReturnsForever ==
    /\ buffer # <<>>
    /\ stable_end_of(FALSE) > 0
    /\ byte_index_at_utf16(buffer, stable_end_of(FALSE)) = 0
    /\ SatSub(last_sentence_end_utf16, stable_end_of(FALSE)) = last_sentence_end_utf16
    /\ SatSub(last_whitespace_utf16, stable_end_of(FALSE)) = last_whitespace_utf16

\* the character of s that ends at UTF-16 offset u, 0 when no character ends there
CharEndingAt(s, u) ==
    LET at == {k \in DOMAIN s : utf16_len(Sub(s, 1, k)) = u}
    IN  IF at = {} THEN 0 ELSE CHOOSE k \in at : TRUE

\* C28: after any sequence of push, pop_segment and reset, buffer_len_utf16 is the UTF-16
\* length of the buffer, and each non-zero cursor is at most buffer_len_utf16 and is the
\* offset in the buffer of what it recorded: last_whitespace_utf16 the offset just after
\* a whitespace character, last_sentence_end_utf16 the offset between a sentence-ending
\* character and the whitespace after it.
C28_CursorsTrackBuffer ==
    /\ buffer_len_utf16 = utf16_len(buffer)
    /\ last_whitespace_utf16 # 0 =>
          /\ last_whitespace_utf16 <= buffer_len_utf16
          /\ CharEndingAt(buffer, last_whitespace_utf16) # 0
          /\ is_whitespace(buffer[CharEndingAt(buffer, last_whitespace_utf16)])
    /\ last_sentence_end_utf16 # 0 =>
          /\ last_sentence_end_utf16 <= buffer_len_utf16
          /\ CharEndingAt(buffer, last_sentence_end_utf16) # 0
          /\ is_end(buffer[CharEndingAt(buffer, last_sentence_end_utf16)])
          /\ CharEndingAt(buffer, last_sentence_end_utf16) < Len(buffer)
          /\ is_whitespace(buffer[CharEndingAt(buffer, last_sentence_end_utf16) + 1])

\* the part of C28 that holds: the length cursor is exact and no cursor is beyond it
C28_CursorsWithinBuffer ==
    /\ buffer_len_utf16 = utf16_len(buffer)
    /\ last_whitespace_utf16 <= buffer_len_utf16
    /\ last_sentence_end_utf16 <= buffer_len_utf16

(***************************************************************************)
(* Identifier scanner: scan.rs scan_all_identifiers, for the families SSN, *)
(* ZIPCODE and DEA.  Each family of the function appends to `out` on its   *)
(* own (its own patterns, its own seen-set), so the detections of these    *)
(* three families are the same whether or not the others run.              *)
(***************************************************************************)
MaxScanLen == 9

\* '1' is a digit, 's' a letter that OCR normalization turns into '5',
\* EMOJI a non-word character of two UTF-16 units
ScanAlphabet == {"1", "s", "EMOJI"}

Digits == {"0", "1", "2", "3", "4", "5", "6", "7", "8", "9"}

UpperSeq == <<"A", "B", "C", "D", "E", "F", "G", "H", "I", "J", "K", "L", "M",
              "N", "O", "P", "Q", "R", "S", "T", "U", "V", "W", "X", "Y", "Z">>

LowerSeq == <<"a", "b", "c", "d", "e", "f", "g", "h", "i", "j", "k", "l", "m",
              "n", "o", "p", "q", "r", "s", "t", "u", "v", "w", "x", "y", "z">>

Upper == {UpperSeq[i] : i \in DOMAIN UpperSeq}

Lower == {LowerSeq[i] : i \in DOMAIN LowerSeq}

Whitespace == {" ", "\t", "\n", "\r"}

\* char::to_ascii_uppercase
to_ascii_uppercase(ch) ==
    IF ch \in Lower THEN UpperSeq[CHOOSE i \in DOMAIN LowerSeq : LowerSeq[i] = ch] ELSE ch

AsciiAlphabetic == Upper \cup Lower

AsciiAlphanumeric == Digits \cup Upper \cup Lower

\* [0-9BOSZIlGgqQ|o]
SsnOcrClass == Digits \cup {"B", "O", "S", "Z", "I", "l", "G", "g", "q", "Q", "|", "o"}

\* (?i)[0-9OoIlBbSs]
DeaOcrClass == Digits \cup {"O", "o", "I", "i", "L", "l", "B", "b", "S", "s"}

\* [-\s]
DashOrSpace == {"-"} \cup Whitespace

\* The character classes of the patterns below, named by their regex source
in_class(cls, ch) ==
    CASE cls = "\\d" -> ch \in Digits
      [] cls = "\\s" -> ch \in Whitespace
      [] cls = "[ \\t]" -> ch \in {" ", "\t"}
      [] cls = "[-\\s]" -> ch \in DashOrSpace
      [] cls = "-" -> ch = "-"
      [] cls = "(?i)[A-Z]" -> ch \in AsciiAlphabetic
      [] cls = "[0-9BOSZIlGgqQ|o]" -> ch \in SsnOcrClass
      [] cls = "(?i)[0-9OoIlBbSs]" -> ch \in DeaOcrClass

\* \w
WordChars == AsciiAlphanumeric \cup {"_"}

is_word(ch) == ch \in WordChars

\* \b at character position pos (0..Len(text)): a word character on exactly one side
word_boundary(text, pos) ==
    LET before == pos >= 1 /\ is_word(text[pos])
        after == pos < Len(text) /\ is_word(text[pos + 1])
    IN  before # after

\* Pattern items: \b, a class repeated lo..hi times (greedy), a capture group's parentheses,
\* an optional non-capturing group (?: ... )?
B == [kind |-> "b", cls |-> "", lo |-> 0, hi |-> 0, g |-> 0, items |-> <<>>]

Cls(cls, lo, hi) == [kind |-> "class", cls |-> cls, lo |-> lo, hi |-> hi, g |-> 0, items |-> <<>>]

Open(g) == [kind |-> "open", cls |-> "", lo |-> 0, hi |-> 0, g |-> g, items |-> <<>>]

Close(g) == [kind |-> "close", cls |-> "", lo |-> 0, hi |-> 0, g |-> g, items |-> <<>>]

Opt(items) == [kind |-> "opt", cls |-> "", lo |-> 0, hi |-> 0, g |-> 0, items |-> items]

\* Unbounded repetition (*), capped by the longest text
Many == 64

\* The capture groups of a match: <<>> for a group that did not take part
NoCaps == [g \in 1..3 |-> <<>>]

NoMatch == [ok |-> FALSE, end |-> 0, caps |-> NoCaps]

\* How many characters from position pos on are in the class, at most hi
RECURSIVE run_length(_, _, _, _)
run_length(text, cls, pos, hi) ==
    IF hi = 0 \/ pos >= Len(text) \/ ~in_class(cls, text[pos + 1]) THEN 0
    ELSE 1 + run_length(text, cls, pos + 1, hi - 1)

\* Regex matching anchored at pos, leftmost-first: a greedy repetition gives characters back
\* until the rest of the pattern matches
RECURSIVE match_here(_, _, _, _)
RECURSIVE match_count(_, _, _, _, _, _)
match_here(text, items, pos, caps) ==
    IF items = <<>> THEN [ok |-> TRUE, end |-> pos, caps |-> caps]
    ELSE LET it == Head(items)
             rest == Tail(items)
         IN  CASE it.kind = "b" ->
                    IF word_boundary(text, pos) THEN match_here(text, rest, pos, caps)
                    ELSE NoMatch
               [] it.kind = "open" ->
                    match_here(text, rest, pos, [caps EXCEPT ![it.g] = <<pos, pos>>])
               [] it.kind = "close" ->
                    match_here(text, rest, pos, [caps EXCEPT ![it.g] = <<@[1], pos>>])
               [] it.kind = "opt" ->
                    LET r == match_here(text, it.items \o rest, pos, caps)
                    IN  IF r.ok THEN r ELSE match_here(text, rest, pos, caps)
               [] it.kind = "class" ->
                    match_count(text, it, rest, pos, caps, run_length(text, it.cls, pos, it.hi))

match_count(text, it, rest, pos, caps, k) ==
    IF k < it.lo THEN NoMatch
    ELSE LET r == match_here(text, rest, pos + k, caps)
         IN  IF r.ok THEN r ELSE match_count(text, it, rest, pos, caps, k - 1)

\* Regex::find_iter / captures_iter: the leftmost match, then the leftmost one after it
RECURSIVE captures_iter(_, _, _)
captures_iter(text, items, pos) ==
    IF pos > Len(text) THEN <<>>
    ELSE LET r == match_here(text, items, pos, NoCaps)
         IN  IF r.ok
             THEN <<[start |-> pos, end |-> r.end, caps |-> r.caps]>>
                  \o captures_iter(text, items, IF r.end > pos THEN r.end ELSE pos + 1)
             ELSE captures_iter(text, items, pos + 1)

\* The byte offset of character position pos (what Match::start and Match::end return)
byte_of(text, pos) == byte_len(Sub(text, 1, pos))

\* build_utf16_index_map before the sort: (0,0), one (byte_pos, u16_pos) per character,
\* then (text.len(), total u16)
index_map_entries(text) ==
    <<<<0, 0>>>>
    \o [k \in 1..Len(text) |-> <<byte_len(Sub(text, 1, k - 1)), utf16_len(Sub(text, 1, k - 1))>>]
    \o <<<<byte_len(text), utf16_len(text)>>>>

build_utf16_index_map(text) == dedup_by_key(index_map_entries(text), <<>>)

\* binary_search_by_key: Ok(i) -> map[i].1; Err(i) -> 0 when i = 0, else map[i - 1].1
byte_to_utf16(map, byte_pos) ==
    IF \E i \in DOMAIN map : map[i][1] = byte_pos
    THEN map[CHOOSE i \in DOMAIN map : map[i][1] = byte_pos][2]
    ELSE LET i == Cardinality({k \in DOMAIN map : map[k][1] < byte_pos})
         IN  IF i = 0 THEN 0 ELSE map[i][2]

normalize_ocr_map(ch) ==
    CASE ch \in {"O", "o"} -> "0"
      [] ch \in {"l", "I", "|"} -> "1"
      [] ch = "B" -> "8"
      [] ch = "b" -> "6"
      [] ch \in {"S", "s"} -> "5"
      [] ch \in {"Z", "z"} -> "2"
      [] ch = "G" -> "6"
      [] ch \in {"g", "q"} -> "9"
      [] OTHER -> ch

normalize_ocr_text(text) == [k \in DOMAIN text |-> normalize_ocr_map(text[k])]

\* SSN_PATTERNS: the patterns that can match a text over ScanAlphabet or its OCR-normalized
\* form; every other pattern of the list requires one of - . * X x O 0 or an en dash.
\*   \b(\d{3})[ \t](\d{2})[ \t](\d{4})\b
\*   \b(\d{9})\b
\*   \b[0-9BOSZIlGgqQ|o]{8,9}\b
SSN_PATTERNS ==
    << <<B, Open(1), Cls("\\d", 3, 3), Close(1), Cls("[ \\t]", 1, 1),
            Open(2), Cls("\\d", 2, 2), Close(2), Cls("[ \\t]", 1, 1),
            Open(3), Cls("\\d", 4, 4), Close(3), B>>,
       <<B, Open(1), Cls("\\d", 9, 9), Close(1), B>>,
       <<B, Cls("[0-9BOSZIlGgqQ|o]", 8, 9), B>> >>

\* ZIP_PATTERNS, all (?i); \b\d{5}-\d{4}\b requires '-'
\*   \b\d{5}\b
\*   \b[A-Z]\s*[A-Z](\d{5})(?:-\d{4})?\b
\*   \b[A-Z]{2}(\d{5})(?:-\d{4})?\b
ZIP_PATTERNS ==
    << <<B, Cls("\\d", 5, 5), B>>,
       <<B, Cls("(?i)[A-Z]", 1, 1), Cls("\\s", 0, Many), Cls("(?i)[A-Z]", 1, 1),
            Open(1), Cls("\\d", 5, 5), Close(1),
            Opt(<<Cls("-", 1, 1), Cls("\\d", 4, 4)>>), B>>,
       <<B, Cls("(?i)[A-Z]", 2, 2), Open(1), Cls("\\d", 5, 5), Close(1),
            Opt(<<Cls("-", 1, 1), Cls("\\d", 4, 4)>>), B>> >>

\* DEA_PATTERNS, all (?i); the three patterns that start with the literal DEA cannot match
\*   \b([A-Z]{2}\d{7})\b
\*   \b([A-Z]{2}[0-9OoIlBbSs]{7})\b
\*   \b([A-Z]{2})[-\s]?([0-9OoIlBbSs]{2})[-\s]?([0-9OoIlBbSs]{5})\b
DEA_PATTERNS ==
    << <<B, Open(1), Cls("(?i)[A-Z]", 2, 2), Cls("\\d", 7, 7), Close(1), B>>,
       <<B, Open(1), Cls("(?i)[A-Z]", 2, 2), Cls("(?i)[0-9OoIlBbSs]", 7, 7), Close(1), B>>,
       <<B, Open(1), Cls("(?i)[A-Z]", 2, 2), Close(1), Cls("[-\\s]", 0, 1),
            Open(2), Cls("(?i)[0-9OoIlBbSs]", 2, 2), Close(2), Cls("[-\\s]", 0, 1),
            Open(3), Cls("(?i)[0-9OoIlBbSs]", 5, 5), Close(3), B>> >>

\* The number of elements of s that are in the set S
CountIn(s, S) == Cardinality({k \in DOMAIN s : s[k] \in S})

is_valid_ssn(ssn) ==
    LET compact == SelectSeq(ssn, LAMBDA c : c \notin Whitespace)
        has_mask == CountIn(compact, {"*", "X", "x"}) > 0
        digit_count == CountIn(compact, Digits)
        mask_count == CountIn(compact, {"*", "X", "x"})
        \* B O S Z I l | g G become digits
        len == CountIn(ssn, Digits \cup {"B", "O", "S", "Z", "I", "l", "|", "g", "G"})
    IN  \/ has_mask /\ digit_count >= 3 /\ mask_count >= 2
        \/ len >= 8 /\ len <= 9

normalize_dea_alnum(dea) ==
    LET alnum == SelectSeq(dea, LAMBDA c : c \in AsciiAlphanumeric)
    IN  [k \in DOMAIN alnum |-> to_ascii_uppercase(alnum[k])]

is_valid_dea(dea) ==
    LET normalized == normalize_dea_alnum(dea)
    IN  /\ Len(normalized) = 9
        /\ normalized[1] \in Upper
        /\ normalized[2] \in Upper
        \* O I L | B S become digits
        /\ \A k \in 3..9 : normalized[k] \in Digits \cup {"O", "I", "L", "|", "B", "S"}

\* The matches of all patterns of a list, in the order the nested for loops visit them
RECURSIVE all_captures(_, _)
all_captures(source, patterns) ==
    IF patterns = <<>> THEN <<>>
    ELSE captures_iter(source, Head(patterns), 0) \o all_captures(source, Tail(patterns))

\* An IdentifierDetection (confidence and pattern are constants of the family, left out)
Detection(filter_type, source, map, from, to) ==
    [filter_type |-> filter_type,
     character_start |-> byte_to_utf16(map, byte_of(source, from)),
     character_end |-> byte_to_utf16(map, byte_of(source, to)),
     text |-> Sub(source, from + 1, to)]

\* SSN: one candidate per match of SSN_PATTERNS on `source`: m.as_str() and the offsets of
\* the match, both taken from `source`
ssn_candidates(source) ==
    LET source_map == build_utf16_index_map(source)
        ms == all_captures(source, SSN_PATTERNS)
    IN  [k \in DOMAIN ms |->
            [d |-> Detection("SSN", source, source_map, ms[k].start, ms[k].end),
             valid |-> is_valid_ssn(Sub(source, ms[k].start + 1, ms[k].end))]]

\* ZIPCODE: group 1 when it took part, else the whole match
zip_candidates(text, map) ==
    LET ms == all_captures(text, ZIP_PATTERNS)
    IN  [k \in DOMAIN ms |->
            LET m == IF ms[k].caps[1] # <<>> THEN ms[k].caps[1] ELSE <<ms[k].start, ms[k].end>>
            IN  [d |-> Detection("ZIPCODE", text, map, m[1], m[2]), valid |-> TRUE]]

\* DEA: groups 1..3 when group 3 took part, else group 1, else the whole match
dea_candidates(text, map) ==
    LET ms == all_captures(text, DEA_PATTERNS)
    IN  [k \in DOMAIN ms |->
            LET c == ms[k].caps
                m == IF c[1] # <<>> /\ c[3] # <<>> THEN <<c[1][1], c[3][2]>>
                     ELSE IF c[1] # <<>> THEN c[1]
                     ELSE <<ms[k].start, ms[k].end>>
            IN  [d |-> Detection("DEA", text, map, m[1], m[2]),
                 valid |-> is_valid_dea(Sub(text, m[1] + 1, m[2]))]]

\* key = (start << 32) | end
seen_key(d) == <<d.character_start, d.character_end>>

\* The body every family runs per candidate: skip a key already seen, skip an invalid
\* candidate, else insert the key and push the detection
RECURSIVE push_unseen(_, _, _)
push_unseen(cands, seen, out) ==
    IF cands = <<>> THEN out
    ELSE LET c == Head(cands)
         IN  IF seen_key(c.d) \in seen \/ ~c.valid THEN push_unseen(Tail(cands), seen, out)
             ELSE push_unseen(Tail(cands), seen \cup {seen_key(c.d)}, Append(out, c.d))

\* out.sort_by(|a, b| a.character_start.cmp(&b.character_start)), a stable sort
sort_by_start(out) ==
    LET sorted == SortStable("detections", out, [k \in DOMAIN out |-> k], <<>>)
    IN  [k \in DOMAIN out |-> out[sorted[k]]]

\* SSN: two passes over one ssn_seen, raw and then OCR-normalized
ssn_detections(text) ==
    push_unseen(ssn_candidates(text) \o ssn_candidates(normalize_ocr_text(text)), {}, <<>>)

scan_all_identifiers(text) ==
    IF text = <<>> THEN <<>>
    ELSE sort_by_start(ssn_detections(text)
                       \o push_unseen(zip_candidates(text, build_utf16_index_map(text)), {}, <<>>)
                       \o push_unseen(dea_candidates(text, build_utf16_index_map(text)), {}, <<>>))

ScanInit ==
    /\ ArbIdle
    /\ ApplyIdle
    /\ KernelIdle
    /\ StreamIdle
    /\ TreeIdle
    /\ FuzzyIdle
    /\ ChaosIdle
    /\ scan_text \in Strings(ScanAlphabet, MaxScanLen)
    /\ scan_out = <<>>
    /\ scan_pc = "ready"

ScanAllIdentifiers ==
    /\ scan_pc = "ready"
    /\ scan_out' = scan_all_identifiers(scan_text)
    /\ scan_pc' = "done"
    /\ UNCHANGED <<scan_text, arbVars, applyVars, kernelVars, streamVars, treeVars, fuzzyVars, chaosVars>>

ScanNext == ScanAllIdentifiers

SpecScan == ScanInit /\ [][ScanNext]_vars

\* str::encode_utf16: a character outside the BMP is a surrogate pair
RECURSIVE encode_utf16(_)
encode_utf16(s) ==
    IF s = <<>> THEN <<>>
    ELSE (IF len_utf16(Head(s)) = 2 THEN <<<<Head(s), "high">>, <<Head(s), "low">>>>
          ELSE <<<<Head(s), "unit">>>>) \o encode_utf16(Tail(s))

\* C2: the text of every detection is the UTF-16 slice of the source between its offsets.
C2_TextIsSourceSlice ==
    scan_pc = "done" =>
        \A k \in DOMAIN scan_out :
            encode_utf16(scan_out[k].text)
              = Sub(encode_utf16(scan_text), scan_out[k].character_start + 1,
                    scan_out[k].character_end)

\* The tags type_specificity knows (every other tag gets the default 25)
TagVocabulary ==
    {"SSN", "MRN", "CREDIT_CARD", "ACCOUNT", "LICENSE", "PASSPORT", "IBAN", "HEALTH_PLAN",
     "EMAIL", "PHONE", "FAX", "IP", "URL", "MAC_ADDRESS", "BITCOIN", "VEHICLE", "DEVICE",
     "BIOMETRIC", "DATE", "ZIPCODE", "ADDRESS", "CITY", "STATE", "COUNTY", "AGE",
     "RELATIVE_DATE", "PROVIDER_NAME", "NAME", "OCCUPATION", "CUSTOM"}

\* C3: every filter_type the scanner emits is in the closed tag vocabulary.
C3_FilterTypeInVocabulary ==
    scan_pc = "done" => \A k \in DOMAIN scan_out : scan_out[k].filter_type \in TagVocabulary

(***************************************************************************)
(* Streaming identifier scanner: scan_stream.rs                            *)
(***************************************************************************)
MaxStreamLen == 8

\* The overlaps tried: none, one unit (which can fall inside a surrogate pair), and one
\* that is at least as long as the whole stream
StreamOverlaps == {0, 1, MaxStreamLen}

\* tail_by_utf16(s, keep_u16)
tail_by_utf16(s, keep_u16) ==
    IF keep_u16 = 0 THEN <<>>
    ELSE IF utf16_len(s) <= keep_u16 THEN s
    ELSE Sub(s, byte_index_at_utf16(s, SatSub(utf16_len(s), keep_u16)) + 1, Len(s))

\* d.character_start and d.character_end moved by combined_start_global
shifted(d, combined_start_global) ==
    [d EXCEPT !.character_start = @ + combined_start_global,
              !.character_end = @ + combined_start_global]

\* retain(|d| true): every detection of the combined text is returned
retain_all(d, chunk_start_global) == TRUE

\* detections.retain(|d| d.character_end > chunk_start_global)
retain_new(d, chunk_start_global) == d.character_end > chunk_start_global

\* The detections of the combined text in global offsets, as push shifts them
shift_all(detections, combined_start_global) ==
    [k \in DOMAIN detections |-> shifted(detections[k], combined_start_global)]

\* What push returns of the shifted detections
returned_of(detections, chunk_start_global) ==
    sort_by_start(SelectSeq(detections, LAMBDA d : retain_new(d, chunk_start_global)))

\* What push removes from the shifted detections
discarded_of(detections, chunk_start_global) ==
    SelectSeq(detections, LAMBDA d : ~retain_new(d, chunk_start_global))

StreamInit ==
    /\ ArbIdle
    /\ ApplyIdle
    /\ KernelIdle
    /\ ScanIdle
    /\ TreeIdle
    /\ FuzzyIdle
    /\ ChaosIdle
    /\ overlap_utf16 \in StreamOverlaps
    /\ tail = <<>>
    /\ tail_len_utf16 = 0
    /\ total_len_utf16 = 0
    /\ document = <<>>
    /\ emitted = <<>>
    /\ last_push = NoPush

\* VulpesStreamingIdentifierScanner::push(chunk), chunk non-empty (an empty chunk returns
\* an empty list and changes nothing).  combined = tail + chunk is scanned,
\* chunk_start_global = total_len_utf16, combined_start_global = that minus tail_len_utf16.
StreamPush ==
    \E chunk \in Strings(ScanAlphabet, MaxStreamLen - total_len_utf16) \ {<<>>} :
        /\ total_len_utf16 + utf16_len(chunk) <= MaxStreamLen
        /\ \E detections \in {shift_all(scan_all_identifiers(tail \o chunk),
                                        SatSub(total_len_utf16, tail_len_utf16))} :
              \E returned \in {returned_of(detections, total_len_utf16)} :
                 /\ emitted' = emitted \o returned
                 /\ last_push' = [returned |-> returned,
                                  discarded |-> discarded_of(detections, total_len_utf16)]
        /\ total_len_utf16' = total_len_utf16 + utf16_len(chunk)
        /\ \E new_tail \in {tail_by_utf16(tail \o chunk, overlap_utf16)} :
              /\ tail' = new_tail
              /\ tail_len_utf16' = utf16_len(new_tail)
        /\ document' = document \o chunk
        /\ UNCHANGED <<overlap_utf16, arbVars, applyVars, kernelVars, scanVars,
                       treeVars, fuzzyVars, chaosVars>>

\* VulpesStreamingIdentifierScanner::reset(): a new stream starts
StreamReset ==
    /\ tail' = <<>>
    /\ tail_len_utf16' = 0
    /\ total_len_utf16' = 0
    /\ document' = <<>>
    /\ emitted' = <<>>
    /\ last_push' = NoPush
    /\ UNCHANGED <<overlap_utf16, arbVars, applyVars, kernelVars, scanVars, treeVars, fuzzyVars, chaosVars>>

StreamNext == StreamPush \/ StreamReset

SpecStream == StreamInit /\ [][StreamNext]_vars

\* What identifies a detection in the stream
detection_id(d) == <<d.character_start, d.character_end, d.filter_type>>

C7_AscendingAcrossPushes ==
    \A i \in 1..(Len(emitted) - 1) :
        emitted[i].character_start <= emitted[i + 1].character_start

\* C8: with an overlap at least as long as any token, the detections returned by the pushes
\* are exactly those scan_all_identifiers returns on the concatenated document.
C8_StreamingEqualsBatch ==
    overlap_utf16 >= MaxStreamLen => Range(emitted) = Range(scan_all_identifiers(document))

(***************************************************************************)
(* Interval tree: interval.rs, IntervalNode and VulpesIntervalTree.        *)
(* Option<Box<IntervalNode>> is <<>> for None and <<node>> for Some(node). *)
(* Every public operation locks the Mutex for its whole body, so each      *)
(* locked body is one step; insert_all takes the lock once per span.       *)
(***************************************************************************)
MaxTreePos == 2

\* bound on IntervalTreeState.size
MaxTreeSize == 2

\* longest argument of insert_all
MaxInsertAll == 2

\* SpanData, the spans passed in by the caller: one plain span on every interval and, on
\* the widest interval, one more of the same key with another confidence, one of another
\* key, and one whose filter type and text are different but give the same key (both
\* may hold the '-' that generate_key writes between the fields)
SpanDataSet ==
    {s \in [character_start : 0..MaxTreePos, character_end : 0..MaxTreePos,
            filter_type : {<<"A">>, <<"A", "-", "B">>}, confidence : {50, 90}, priority : {100},
            text : {<<"C">>, <<"B", "-", "C">>}] :
        /\ s.character_start < s.character_end
        /\ (s.filter_type # <<"A">> \/ s.text # <<"C">> \/ s.confidence # 90)
              => (s.character_start = 0 /\ s.character_end = MaxTreePos)
        /\ s.filter_type = <<"A", "-", "B">> => s.text = <<"C">>
        /\ s.confidence = 50 => (s.filter_type = <<"A">> /\ s.text = <<"C">>)}

\* format!("{}", n) for an i32 that is not negative
RECURSIVE format_i32(_)
format_i32(n) ==
    LET digit == <<"0", "1", "2", "3", "4", "5", "6", "7", "8", "9">>[(n % 10) + 1]
    IN  IF n < 10 THEN <<digit>> ELSE format_i32(n \div 10) \o <<digit>>

\* VulpesIntervalTree::generate_key
generate_key(span) ==
    format_i32(span.character_start) \o <<"-">> \o format_i32(span.character_end) \o <<"-">>
        \o span.filter_type \o <<"-">> \o span.text

\* the StoredSpan built at the top of insert
StoredSpan(span) ==
    [key |-> generate_key(span), start |-> span.character_start, end |-> span.character_end,
     filter_type |-> span.filter_type, confidence |-> span.confidence,
     priority |-> span.priority, text |-> span.text]

\* the SpanData built from a StoredSpan in find_overlaps and get_all_spans
SpanData(s) ==
    [character_start |-> s.start, character_end |-> s.end, filter_type |-> s.filter_type,
     confidence |-> s.confidence, priority |-> s.priority, text |-> s.text]

\* IntervalNode::new
IntervalNode_new(start, end, span) ==
    [start |-> start, end |-> end, max_end |-> end, spans |-> <<span>>,
     left |-> <<>>, right |-> <<>>]

\* (the same without the children: max_end is the node's own end)
own_end_only(node) == [node EXCEPT !.max_end = node.end]

\* IntervalNode::update_max
update_max(node) ==
    LET m0 == node.end
        m1 == IF node.left # <<>> THEN Max(m0, node.left[1].max_end) ELSE m0
        m2 == IF node.right # <<>> THEN Max(m1, node.right[1].max_end) ELSE m1
    IN  [node EXCEPT !.max_end = m2]

\* the side of a node on which the interval (start, end) is stored
goes_left(node, start, end) ==
    start < node.start \/ (start = node.start /\ end < node.end)

\* IntervalNode::insert
RECURSIVE node_insert(_, _, _, _)
node_insert(node, start, end, span) ==
    IF start = node.start /\ end = node.end
    THEN [node EXCEPT !.spans = Append(@, span)]
    ELSE IF goes_left(node, start, end)
         THEN update_max([node EXCEPT !.left =
                  IF @ # <<>> THEN <<node_insert(@[1], start, end, span)>>
                  ELSE <<IntervalNode_new(start, end, span)>>])
         ELSE update_max([node EXCEPT !.right =
                  IF @ # <<>> THEN <<node_insert(@[1], start, end, span)>>
                  ELSE <<IntervalNode_new(start, end, span)>>])

\* (the same, emptying the node's list whatever the keys in it)
retain_none(stored, key) == <<>>

\* Vec::retain(|s| s.key != key)
RECURSIVE retain_other_keys(_, _)
retain_other_keys(stored, key) ==
    IF stored = <<>> THEN <<>>
    ELSE IF Head(stored).key # key
         THEN <<Head(stored)>> \o retain_other_keys(Tail(stored), key)
         ELSE retain_other_keys(Tail(stored), key)

\* IntervalNode::remove: <<the node afterwards, the bool returned>>
RECURSIVE node_remove(_, _, _, _)
node_remove(node, start, end, key) ==
    IF start = node.start /\ end = node.end
    THEN LET kept == retain_other_keys(node.spans, key)
         IN  <<[node EXCEPT !.spans = kept], Len(kept) < Len(node.spans)>>
    ELSE IF goes_left(node, start, end)
         THEN IF node.left = <<>> THEN <<node, FALSE>>
              ELSE LET r == node_remove(node.left[1], start, end, key)
                   IN  IF r[2] THEN <<update_max([node EXCEPT !.left = <<r[1]>>]), TRUE>>
                       ELSE <<[node EXCEPT !.left = <<r[1]>>], FALSE>>
         ELSE IF node.right = <<>> THEN <<node, FALSE>>
              ELSE LET r == node_remove(node.right[1], start, end, key)
                   IN  IF r[2] THEN <<update_max([node EXCEPT !.right = <<r[1]>>]), TRUE>>
                       ELSE <<[node EXCEPT !.right = <<r[1]>>], FALSE>>

\* IntervalNode::find_overlaps: what the call appends to `results`
RECURSIVE node_find_overlaps(_, _, _)
node_find_overlaps(node, query_start, query_end) ==
    (IF node.start < query_end /\ node.end > query_start THEN node.spans ELSE <<>>)
    \o (IF node.left # <<>> /\ node.left[1].max_end > query_start
        THEN node_find_overlaps(node.left[1], query_start, query_end) ELSE <<>>)
    \o (IF node.right # <<>> /\ query_end > node.start
        THEN node_find_overlaps(node.right[1], query_start, query_end) ELSE <<>>)

\* .filter(|s| seen.insert(s.key.clone())): the first span of each key
RECURSIVE first_of_each_key(_, _)
first_of_each_key(results, seen) ==
    IF results = <<>> THEN <<>>
    ELSE IF Head(results).key \in seen THEN first_of_each_key(Tail(results), seen)
         ELSE <<Head(results)>> \o first_of_each_key(Tail(results), seen \cup {Head(results).key})

\* VulpesIntervalTree::find_overlaps, the body under the lock
find_overlaps(tree_root, start, end) ==
    LET results == IF tree_root # <<>> THEN node_find_overlaps(tree_root[1], start, end) ELSE <<>>
        unique == first_of_each_key(results, {})
    IN  [i \in DOMAIN unique |-> SpanData(unique[i])]

\* VulpesIntervalTree::insert, the body under the lock: <<root, span_map, size>> afterwards
insert_locked(tree_root, map, n, span) ==
    LET stored == StoredSpan(span)
    IN  <<IF tree_root # <<>> THEN <<node_insert(tree_root[1], stored.start, stored.end, stored)>>
          ELSE <<IntervalNode_new(stored.start, stored.end, stored)>>,
          [k \in DOMAIN map \cup {stored.key} |-> IF k = stored.key THEN stored ELSE map[k]],
          n + 1>>

\* self.state.lock().unwrap() on a poisoned Mutex: the call panics, the state is untouched
PanicOnPoisoned(t, op) ==
    /\ poisoned
    /\ tree_call' = [NoTreeCall EXCEPT !.op = op, !.outcome = "panic"]
    /\ pending' = [pending EXCEPT ![t] = <<>>]
    /\ UNCHANGED <<root, span_map, size, poisoned>>

TreeInit ==
    /\ ArbIdle
    /\ ApplyIdle
    /\ KernelIdle
    /\ ScanIdle
    /\ StreamIdle
    /\ FuzzyIdle
    /\ ChaosIdle
    /\ root = <<>>
    /\ span_map = <<>>
    /\ size = 0
    /\ poisoned = FALSE
    /\ pending = [t \in Threads |-> <<>>]
    /\ tree_call = NoTreeCall

\* VulpesIntervalTree::insert(span) called by thread t
TreeInsert(t, span) ==
    /\ pending[t] = <<>>
    /\ size < MaxTreeSize
    /\ \/ PanicOnPoisoned(t, "insert")
       \/ /\ ~poisoned
          /\ \E r \in {insert_locked(root, span_map, size, span)} :
                /\ root' = r[1]
                /\ span_map' = r[2]
                /\ size' = r[3]
          /\ tree_call' = [NoTreeCall EXCEPT !.op = "insert"]
          /\ UNCHANGED <<poisoned, pending>>
    /\ UNCHANGED <<arbVars, applyVars, kernelVars, scanVars, streamVars, fuzzyVars, chaosVars>>

\* VulpesIntervalTree::insert_all(spans) called by thread t: the first iteration of its loop
TreeInsertAll(t, arg) ==
    /\ pending[t] = <<>>
    /\ size + Len(arg) <= MaxTreeSize
    /\ IF arg = <<>>
       THEN /\ tree_call' = [NoTreeCall EXCEPT !.op = "insert_all"]
            /\ UNCHANGED <<root, span_map, size, poisoned, pending>>
       ELSE \/ PanicOnPoisoned(t, "insert_all")
            \/ /\ ~poisoned
               /\ \E r \in {insert_locked(root, span_map, size, Head(arg))} :
                     /\ root' = r[1]
                     /\ span_map' = r[2]
                     /\ size' = r[3]
               /\ pending' = [pending EXCEPT ![t] = Tail(arg)]
               /\ tree_call' = [NoTreeCall EXCEPT !.op = "insert_all"]
               /\ UNCHANGED poisoned
    /\ UNCHANGED <<arbVars, applyVars, kernelVars, scanVars, streamVars, fuzzyVars, chaosVars>>

\* the next iteration of the loop of an insert_all in progress
TreeInsertAllNext(t) ==
    /\ pending[t] # <<>>
    /\ \/ PanicOnPoisoned(t, "insert_all")
       \/ /\ ~poisoned
          /\ \E r \in {insert_locked(root, span_map, size, Head(pending[t]))} :
                /\ root' = r[1]
                /\ span_map' = r[2]
                /\ size' = r[3]
          /\ pending' = [pending EXCEPT ![t] = Tail(@)]
          /\ tree_call' = [NoTreeCall EXCEPT !.op = "insert_all"]
          /\ UNCHANGED poisoned
    /\ UNCHANGED <<arbVars, applyVars, kernelVars, scanVars, streamVars, fuzzyVars, chaosVars>>

\* VulpesIntervalTree::find_overlaps(start, end) called by thread t
TreeFindOverlaps(t, start, end) ==
    /\ pending[t] = <<>>
    /\ \/ PanicOnPoisoned(t, "find_overlaps")
       \/ /\ ~poisoned
          /\ tree_call' = [NoTreeCall EXCEPT !.op = "find_overlaps",
                              !.query = <<start, end>>,
                              !.spans = find_overlaps(root, start, end)]
          /\ UNCHANGED <<root, span_map, size, poisoned, pending>>
    /\ UNCHANGED <<arbVars, applyVars, kernelVars, scanVars, streamVars, fuzzyVars, chaosVars>>

\* VulpesIntervalTree::has_overlap(span) called by thread t
TreeHasOverlap(t, span) ==
    /\ pending[t] = <<>>
    /\ \/ PanicOnPoisoned(t, "has_overlap")
       \/ /\ ~poisoned
          /\ tree_call' = [NoTreeCall EXCEPT !.op = "has_overlap",
                              !.query = <<span.character_start, span.character_end>>,
                              !.flag = (find_overlaps(root, span.character_start,
                                                      span.character_end) # <<>>)]
          /\ UNCHANGED <<root, span_map, size, poisoned, pending>>
    /\ UNCHANGED <<arbVars, applyVars, kernelVars, scanVars, streamVars, fuzzyVars, chaosVars>>

\* VulpesIntervalTree::remove(span) called by thread t: generate_key, then remove_by_key
TreeRemove(t, span) ==
    /\ pending[t] = <<>>
    /\ \/ PanicOnPoisoned(t, "remove")
       \/ /\ ~poisoned
          /\ LET key == generate_key(span)
             IN  IF key \in DOMAIN span_map
                 THEN /\ root' = IF root # <<>>
                                 THEN <<node_remove(root[1], span_map[key].start,
                                                    span_map[key].end, key)[1]>>
                                 ELSE root
                      /\ span_map' = [k \in DOMAIN span_map \ {key} |-> span_map[k]]
                      /\ size' = size - 1
                      /\ tree_call' = [NoTreeCall EXCEPT !.op = "remove", !.query = key,
                                                         !.flag = TRUE]
                 ELSE /\ tree_call' = [NoTreeCall EXCEPT !.op = "remove", !.query = key]
                      /\ UNCHANGED <<root, span_map, size>>
          /\ UNCHANGED <<poisoned, pending>>
    /\ UNCHANGED <<arbVars, applyVars, kernelVars, scanVars, streamVars, fuzzyVars, chaosVars>>

\* VulpesIntervalTree::clear() called by thread t
TreeClear(t) ==
    /\ pending[t] = <<>>
    /\ \/ PanicOnPoisoned(t, "clear")
       \/ /\ ~poisoned
          /\ root' = <<>>
          /\ span_map' = <<>>
          /\ size' = 0
          /\ tree_call' = [NoTreeCall EXCEPT !.op = "clear"]
          /\ UNCHANGED <<poisoned, pending>>
    /\ UNCHANGED <<arbVars, applyVars, kernelVars, scanVars, streamVars, fuzzyVars, chaosVars>>

\* VulpesIntervalTree::get_all_spans() called by thread t; the order of HashMap::values
\* is unspecified
TreeGetAllSpans(t) ==
    /\ pending[t] = <<>>
    /\ \/ PanicOnPoisoned(t, "get_all_spans")
       \/ /\ ~poisoned
          /\ \E order \in Orders(DOMAIN span_map) :
                tree_call' = [NoTreeCall EXCEPT !.op = "get_all_spans",
                                 !.spans = [i \in DOMAIN order |-> SpanData(span_map[order[i]])]]
          /\ UNCHANGED <<root, span_map, size, poisoned, pending>>
    /\ UNCHANGED <<arbVars, applyVars, kernelVars, scanVars, streamVars, fuzzyVars, chaosVars>>

\* VulpesIntervalTree::size() called by thread t
TreeSize(t) ==
    /\ pending[t] = <<>>
    /\ \/ PanicOnPoisoned(t, "size")
       \/ /\ ~poisoned
          /\ tree_call' = [NoTreeCall EXCEPT !.op = "size", !.value = size]
          /\ UNCHANGED <<root, span_map, size, poisoned, pending>>
    /\ UNCHANGED <<arbVars, applyVars, kernelVars, scanVars, streamVars, fuzzyVars, chaosVars>>

\* VulpesIntervalTree::has(span) called by thread t
TreeHas(t, span) ==
    /\ pending[t] = <<>>
    /\ \/ PanicOnPoisoned(t, "has")
       \/ /\ ~poisoned
          /\ tree_call' = [NoTreeCall EXCEPT !.op = "has", !.query = generate_key(span),
                              !.flag = (generate_key(span) \in DOMAIN span_map)]
          /\ UNCHANGED <<root, span_map, size, poisoned, pending>>
    /\ UNCHANGED <<arbVars, applyVars, kernelVars, scanVars, streamVars, fuzzyVars, chaosVars>>

\* A thread panics while it holds the MutexGuard: std marks the Mutex as poisoned.
PanicHoldingLock(t) ==
    /\ ~poisoned
    /\ poisoned' = TRUE
    /\ pending' = [pending EXCEPT ![t] = <<>>]
    /\ tree_call' = [NoTreeCall EXCEPT !.op = "poison", !.outcome = "panic"]
    /\ UNCHANGED <<root, span_map, size>>
    /\ UNCHANGED <<arbVars, applyVars, kernelVars, scanVars, streamVars, fuzzyVars, chaosVars>>

TreeNext ==
    \E t \in Threads :
        \/ \E span \in SpanDataSet : TreeInsert(t, span)
        \/ \E arg \in UNION {[1..n -> {s \in SpanDataSet : s.confidence = 90 /\ s.text = <<"C">>}] :
                               n \in 0..MaxInsertAll} : TreeInsertAll(t, arg)
        \/ TreeInsertAllNext(t)
        \/ \E start, end \in 0..MaxTreePos : TreeFindOverlaps(t, start, end)
        \/ \E span \in SpanDataSet : TreeHasOverlap(t, span)
        \/ \E span \in SpanDataSet : TreeRemove(t, span)
        \/ TreeClear(t)
        \/ TreeGetAllSpans(t)
        \/ TreeSize(t)
        \/ \E span \in SpanDataSet : TreeHas(t, span)
        \/ PanicHoldingLock(t)

SpecTree == TreeInit /\ [][TreeNext]_vars

\* the spans the side map holds that overlap the query (start, end)
StoredOverlapping(start, end) ==
    {SpanData(span_map[k]) : k \in {key \in DOMAIN span_map :
                                      span_map[key].start < end /\ span_map[key].end > start}}

\* C16: find_overlaps(qs, qe) returns exactly the currently stored spans with start < qe
\* and end > qs, each one once, and has_overlap is true exactly when there is such a span.
C16_FindOverlapsExact ==
    /\ (tree_call.op = "find_overlaps" /\ tree_call.outcome = "ok") =>
           /\ Range(tree_call.spans) = StoredOverlapping(tree_call.query[1], tree_call.query[2])
           /\ \A i, j \in DOMAIN tree_call.spans : i # j => tree_call.spans[i] # tree_call.spans[j]
    /\ (tree_call.op = "has_overlap" /\ tree_call.outcome = "ok") =>
           (tree_call.flag <=> StoredOverlapping(tree_call.query[1], tree_call.query[2]) # {})

\* C17: size() is the number of spans get_all_spans() returns, and is 0 exactly when the
\* tree holds no span.
C17_SizeCountsStoredSpans ==
    /\ (tree_call.op = "size" /\ tree_call.outcome = "ok") =>
           /\ tree_call.value = Cardinality(DOMAIN span_map)
           /\ tree_call.value = 0 <=> span_map = <<>>
    /\ (tree_call.op = "get_all_spans" /\ tree_call.outcome = "ok") =>
           Len(tree_call.spans) = size

\* C18: every call takes effect atomically: while a thread's insert_all has inserted some
\* of its spans and not yet the others, no call of another thread takes effect or
\* observes the tree (the only steps are that thread's own, or a panic).
C18_CallsAtomic ==
    [][\A t \in Threads :
          pending[t] # <<>> => (pending'[t] # pending[t] \/ tree_call'.outcome = "panic")]_vars

\* C19: once the mutex is poisoned, every later operation returns an error to its caller;
\* none panics.
C19_PoisonedReturnsError ==
    (poisoned /\ tree_call.op # "poison") => tree_call.outcome = "error"

\* what find_overlaps returns for the query (start, end), without the spans of the key
OverlapsOfOtherKeys(tree_root, start, end, key) ==
    SelectSeq(find_overlaps(tree_root, start, end), LAMBDA s : generate_key(s) # key)

\* C24: remove(span) returns true exactly when a span with that key is stored; afterwards
\* has(key) is false and a second remove of the key returns false, and every other stored
\* span is still returned, unchanged, by get_all_spans and by find_overlaps.
C24_RemoveOnlyThatKey ==
    [][/\ (tree_call'.op = "remove" /\ tree_call'.outcome = "ok") =>
             /\ tree_call'.flag <=> tree_call'.query \in DOMAIN span_map
             /\ tree_call'.query \notin DOMAIN span_map'
             /\ DOMAIN span_map' = DOMAIN span_map \ {tree_call'.query}
             /\ \A k \in DOMAIN span_map' : span_map'[k] = span_map[k]
             /\ \A start, end \in 0..MaxTreePos :
                   OverlapsOfOtherKeys(root', start, end, tree_call'.query)
                       = OverlapsOfOtherKeys(root, start, end, tree_call'.query)
       /\ (/\ tree_call.op = "remove" /\ tree_call.outcome = "ok"
           /\ tree_call'.op \in {"remove", "has"} /\ tree_call'.outcome = "ok"
           /\ tree_call'.query = tree_call.query) => ~tree_call'.flag]_vars

\* a span was removed from a node that holds a span of another key, which is still
\* stored and still found
C24_Witness ==
    /\ tree_call.op = "remove"
    /\ tree_call.flag
    /\ span_map # <<>>
    /\ \E k \in DOMAIN span_map :
          /\ span_map[k].start = 0
          /\ span_map[k].end = MaxTreePos
          /\ generate_key(find_overlaps(root, 0, MaxTreePos)[1]) = k
    /\ Len(tree_call.query) > 0
    /\ SubSeq(tree_call.query, 1, 3) = <<"0", "-", "2">>

\* the nodes of a subtree, emptied ones included
RECURSIVE NodesOf(_)
NodesOf(tree) ==
    IF tree = <<>> THEN {}
    ELSE {tree[1]} \cup NodesOf(tree[1].left) \cup NodesOf(tree[1].right)

\* C25: after any sequence of insert and remove, the max_end of every node is the largest
\* end among the node and the nodes of its subtree, emptied (tombstone) nodes included.
C25_MaxEndIsSubtreeMax ==
    \A node \in NodesOf(root) :
        node.max_end = SetMax({n.end : n \in NodesOf(<<node>>)})

\* a tree whose root has a child that reaches further than the root itself, and a node
\* emptied by remove below the root
C25_Witness ==
    /\ root # <<>>
    /\ root[1].max_end > root[1].end
    /\ \E node \in NodesOf(root) : node # root[1] /\ node.spans = <<>>
    /\ tree_call.op = "remove"

(***************************************************************************)
(* Fuzzy matcher: fuzzy.rs, VulpesFuzzyMatcher.  A String is the sequence  *)
(* of its characters (all ASCII here); Option<String> is <<>> or <<s>>.    *)
(* A confidence (f64) is the exact fraction <<numerator, denominator>>.    *)
(***************************************************************************)
MaxTerms == 2

MaxTermLen == 3

MaxQueryLen == 3

\* bound on the number of cached queries
MaxCached == 1

\* a lower-case letter, an upper-case letter and a whitespace character
FuzzyAlphabet == {"a", "B", " "}

\* a name of the dictionary and a misspelling of it with one letter missing
Patricia == <<"p", "a", "t", "r", "i", "c", "i", "a">>

Patrica == <<"p", "a", "t", "r", "i", "c", "a">>

\* FuzzyMatcherConfig values: no edits (exact and phonetic only), one edit, the default two
FuzzyConfigs ==
    {[max_edit_distance |-> 0, enable_phonetic |-> TRUE, min_term_length |-> 2, cache_size |-> 0],
     [max_edit_distance |-> 1, enable_phonetic |-> FALSE, min_term_length |-> 3, cache_size |-> 0],
     [max_edit_distance |-> 2, enable_phonetic |-> TRUE, min_term_length |-> 3, cache_size |-> 0]}

\* s.to_lowercase().trim().to_string()
normalize(s) ==
    LET lower == [i \in DOMAIN s |->
                     IF s[i] \in Upper
                     THEN LowerSeq[CHOOSE k \in DOMAIN UpperSeq : UpperSeq[k] = s[i]] ELSE s[i]]
        inner == {i \in DOMAIN lower : lower[i] \notin Whitespace}
    IN  IF inner = {} THEN <<>>
        ELSE Sub(lower, CHOOSE i \in inner : \A j \in inner : i <= j, SetMax(inner))

\* generate_deletions, the `for i in 0..chars.len()` loop: <<queue, seen>> afterwards
RECURSIVE push_deletions(_, _, _, _, _)
push_deletions(current, i, min_len, queue, seen) ==
    IF i > Len(current.text) THEN <<queue, seen>>
    ELSE LET deletion == Sub(current.text, 1, i - 1) \o Sub(current.text, i + 1, Len(current.text))
         IN  IF Len(deletion) >= min_len /\ deletion \notin seen
             THEN push_deletions(current, i + 1, min_len,
                                 Append(queue, [text |-> deletion, distance |-> current.distance + 1]),
                                 seen \cup {deletion})
             ELSE push_deletions(current, i + 1, min_len, queue, seen)

\* generate_deletions, the `while let Some(current) = queue.pop()` loop
RECURSIVE deletions_loop(_, _, _, _, _)
deletions_loop(queue, seen, result, max_distance, min_len) ==
    IF queue = <<>> THEN result
    ELSE LET current == queue[Len(queue)]
             rest == Sub(queue, 1, Len(queue) - 1)
             pushed == IF current.distance > 0 THEN Append(result, current) ELSE result
         IN  IF current.distance >= max_distance
             THEN deletions_loop(rest, seen, pushed, max_distance, min_len)
             ELSE LET r == push_deletions(current, 1, min_len, rest, seen)
                  IN  deletions_loop(r[1], r[2], pushed, max_distance, min_len)

\* VulpesFuzzyMatcher::generate_deletions
generate_deletions(cfg, term, max_distance) ==
    deletions_loop(<<[text |-> term, distance |-> 0]>>, {}, <<>>, max_distance,
                   Max(cfg.min_term_length - max_distance, 1))

\* the closure `code` of soundex
soundex_code(c) ==
    CASE c \in {"B", "F", "P", "V"} -> "1"
      [] c \in {"C", "G", "J", "K", "Q", "S", "X", "Z"} -> "2"
      [] c \in {"D", "T"} -> "3"
      [] c = "L" -> "4"
      [] c \in {"M", "N"} -> "5"
      [] c = "R" -> "6"
      [] OTHER -> "0"

\* soundex, the loop over chars.iter().skip(1)
RECURSIVE soundex_loop(_, _, _, _)
soundex_loop(chars, i, prev_code, result) ==
    IF i > Len(chars) \/ Len(result) >= 4 THEN result
    ELSE LET curr_code == soundex_code(chars[i])
         IN  soundex_loop(chars, i + 1, curr_code,
                          IF curr_code # "0" /\ curr_code # prev_code
                          THEN Append(result, curr_code) ELSE result)

\* soundex(text)
soundex(text) ==
    LET upper == [i \in DOMAIN text |-> to_ascii_uppercase(text[i])]
        chars == SelectSeq(upper, LAMBDA c : c \in AsciiAlphabetic)
        coded == soundex_loop(chars, 2, soundex_code(chars[1]), <<chars[1]>>)
    IN  IF chars = <<>> THEN <<"0", "0", "0", "0">>
        ELSE coded \o [i \in 1..(4 - Len(coded)) |-> "0"]

\* damerau_levenshtein(a, b)
damerau_levenshtein(a, b) ==
    LET diff == IF Len(a) >= Len(b) THEN Len(a) - Len(b) ELSE Len(b) - Len(a)
        d[i \in 0..Len(a), j \in 0..Len(b)] ==
            IF i = 0 THEN j
            ELSE IF j = 0 THEN i
            ELSE LET cost == IF a[i] = b[j] THEN 0 ELSE 1
                     best == Min(Min(d[i - 1, j] + 1, d[i, j - 1] + 1), d[i - 1, j - 1] + cost)
                 IN  IF i > 1 /\ j > 1 /\ a[i] = b[j - 1] /\ a[i - 1] = b[j]
                     THEN Min(best, d[i - 2, j - 2] + cost)
                     ELSE best
    IN  IF Len(a) = 0 THEN Len(b)
        ELSE IF Len(b) = 0 THEN Len(a)
        ELSE IF diff > 2 THEN diff
        ELSE d[Len(a), Len(b)]

\* VulpesFuzzyMatcher::build_index, folded over `terms` from the i-th on;
\* index = [exact_terms, deletion_index, phonetic_index]
RECURSIVE build_index(_, _, _, _)
build_index(cfg, all_terms, i, index) ==
    IF i > Len(all_terms) THEN index
    ELSE LET term == normalize(all_terms[i])
             deletions == generate_deletions(cfg, term, cfg.max_edit_distance)
         IN  IF Len(term) < cfg.min_term_length THEN build_index(cfg, all_terms, i + 1, index)
             ELSE build_index(cfg, all_terms, i + 1,
                      [exact_terms |-> index.exact_terms \cup {term},
                       deletion_index |-> index.deletion_index \o
                           [k \in DOMAIN deletions |->
                               [text |-> deletions[k].text, term |-> term,
                                distance |-> deletions[k].distance]],
                       phonetic_index |-> index.phonetic_index \o
                           (IF cfg.enable_phonetic
                            THEN <<[code |-> soundex(term), term |-> term]>> ELSE <<>>)])

\* the DeletionEntry values stored under the key `text`, in push order
entries_of(index, text) ==
    LET hits == SelectSeq(index, LAMBDA e : e.text = text)
    IN  [k \in DOMAIN hits |-> [term |-> hits[k].term, distance |-> hits[k].distance]]

\* (the same without the look-up in the dictionary: every deletion of the query is a candidate)
candidate_unchecked(exact, deletion) ==
    <<[term |-> deletion.text, distance |-> deletion.distance]>>

\* get_candidates: a deletion of the query that is itself a dictionary term
candidate_of_deletion(exact, deletion) ==
    IF deletion.text \in exact
    THEN <<[term |-> deletion.text, distance |-> deletion.distance]>> ELSE <<>>

\* get_candidates: the entries met, in order: the direct matches, then for each deletion
\* of the query (from the i-th on) the deletion itself and the entries stored under it
RECURSIVE candidates_met(_, _, _, _)
candidates_met(exact, index, query_deletions, i) ==
    IF i > Len(query_deletions) THEN <<>>
    ELSE candidate_of_deletion(exact, query_deletions[i])
         \o entries_of(index, query_deletions[i].text)
         \o candidates_met(exact, index, query_deletions, i + 1)

\* get_candidates: `seen` lets through the first entry of each term
RECURSIVE first_of_each_term(_, _)
first_of_each_term(entries, seen) ==
    IF entries = <<>> THEN <<>>
    ELSE IF Head(entries).term \in seen THEN first_of_each_term(Tail(entries), seen)
         ELSE <<Head(entries)>> \o first_of_each_term(Tail(entries), seen \cup {Head(entries).term})

\* VulpesFuzzyMatcher::get_candidates
get_candidates(cfg, exact, index, query) ==
    first_of_each_term(
        entries_of(index, query)
        \o candidates_met(exact, index, generate_deletions(cfg, query, cfg.max_edit_distance), 1),
        {})

\* the best_match loops of lookup: the first of the candidate terms at the least distance
\* from the query, as <<term, distance>>; <<>> when there is no candidate
closest(query, candidate_terms) ==
    IF candidate_terms = <<>> THEN <<>>
    ELSE LET dist == [k \in DOMAIN candidate_terms |-> damerau_levenshtein(query, candidate_terms[k])]
             k0 == CHOOSE k \in DOMAIN dist :
                       /\ \A j \in DOMAIN dist : dist[k] <= dist[j]
                       /\ \A j \in 1..(k - 1) : dist[j] > dist[k]
         IN  <<candidate_terms[k0], dist[k0]>>

\* calculate_confidence(query, matched, distance), as a fraction
calculate_confidence(query, matched, distance) ==
    LET max_len == Max(Len(query), Len(matched))
        max_prefix == Min(4, Min(Len(query), Len(matched)))
        prefix_len == Cardinality({i \in 1..max_prefix : \A j \in 1..i : query[j] = matched[j]})
        \* similarity + prefix_bonus, with similarity = 1 - distance / max_len and
        \* prefix_bonus = prefix_len * 0.1 * (1 - similarity)
        num == 10 * (max_len - distance) + prefix_len * distance
        den == 10 * max_len
        confidence == IF 100 * num > 99 * den THEN <<99, 100>> ELSE <<num, den>>
    IN  IF distance = 0 THEN <<1, 1>>
        ELSE <<confidence[1] * 23 ^ distance, confidence[2] * 25 ^ distance>>

\* VulpesFuzzyMatcher::lookup after the cache miss, for the normalized query
lookup_fresh(cfg, exact, index, phonetic, query) ==
    LET found(term, distance, match_type) ==
            [query |-> query, matched |-> TRUE, term |-> <<term>>, distance |-> distance,
             confidence |->
                 LET c == calculate_confidence(query, term, distance)
                 IN  CASE match_type = "EXACT" -> <<1, 1>>
                       [] match_type = "PHONETIC" -> <<c[1] * 9, c[2] * 10>>
                       [] OTHER -> c,
             match_type |-> match_type, cached |-> FALSE]
        candidates == get_candidates(cfg, exact, index, query)
        best == closest(query, [k \in DOMAIN candidates |-> candidates[k].term])
        bucket == SelectSeq(phonetic, LAMBDA e : e.code = soundex(query))
        sounding == closest(query, [k \in DOMAIN bucket |-> bucket[k].term])
    IN  IF query \in exact THEN found(query, 0, "EXACT")
        ELSE IF /\ Len(query) >= cfg.min_term_length
                /\ best # <<>>
                /\ best[2] <= cfg.max_edit_distance
             THEN found(best[1], best[2], IF best[2] = 1 THEN "DELETE_1" ELSE "DELETE_2")
        ELSE IF /\ cfg.enable_phonetic
                /\ Len(query) >= cfg.min_term_length
                /\ sounding # <<>>
                /\ sounding[2] <= cfg.max_edit_distance + 1
             THEN found(sounding[1], sounding[2], "PHONETIC")
        ELSE [query |-> query, matched |-> FALSE, term |-> <<>>, distance |-> 2147483647,
              confidence |-> <<0, 1>>, match_type |-> "NONE", cached |-> FALSE]

\* LruCache::get on a hit: the cache afterwards (the key moves to the back of `order`)
lru_get(cache, key) ==
    [cache EXCEPT !.order = SelectSeq(@, LAMBDA k : k # key) \o <<key>>]

\* LruCache::insert: the cache afterwards
lru_insert(cache, capacity, key, value) ==
    LET evict == Cardinality(DOMAIN cache.map) >= capacity /\ key \notin DOMAIN cache.map
                    /\ cache.order # <<>>
        kept == IF evict THEN DOMAIN cache.map \ {Head(cache.order)} ELSE DOMAIN cache.map
        order == IF evict THEN Tail(cache.order) ELSE cache.order
    IN  [map |-> [k \in kept \cup {key} |-> IF k = key THEN value ELSE cache.map[k]],
         order |-> SelectSeq(order, LAMBDA k : k # key) \o <<key>>]

\* VulpesFuzzyMatcher::new(terms, Some(config))
FuzzyInit ==
    /\ ArbIdle
    /\ ApplyIdle
    /\ KernelIdle
    /\ ScanIdle
    /\ StreamIdle
    /\ TreeIdle
    /\ ChaosIdle
    /\ terms \in UNION {[1..n -> Strings(FuzzyAlphabet, MaxTermLen)] : n \in 0..MaxTerms}
                   \cup {<<Patricia>>}
    /\ config \in FuzzyConfigs
    /\ \E index \in {build_index(config, terms, 1,
                                 [exact_terms |-> {}, deletion_index |-> <<>>,
                                  phonetic_index |-> <<>>])} :
          /\ exact_terms = index.exact_terms
          /\ deletion_index = index.deletion_index
          /\ phonetic_index = index.phonetic_index
    /\ query_cache = [map |-> <<>>, order |-> <<>>]
    /\ lookup_result = NoLookup

\* VulpesFuzzyMatcher::lookup(query)
FuzzyLookup(query) ==
    /\ \E normalized_query \in {normalize(query)} :
          IF normalized_query \in DOMAIN query_cache.map
          THEN /\ lookup_result' = [query_cache.map[normalized_query] EXCEPT !.cached = TRUE]
               /\ query_cache' = lru_get(query_cache, normalized_query)
          ELSE /\ Cardinality(DOMAIN query_cache.map) < MaxCached
               /\ \E result \in {lookup_fresh(config, exact_terms, deletion_index,
                                              phonetic_index, normalized_query)} :
                     /\ lookup_result' = result
                     /\ query_cache' = lru_insert(query_cache, Max(config.cache_size, 100),
                                                  normalized_query, result)
    /\ UNCHANGED <<terms, config, exact_terms, deletion_index, phonetic_index>>
    /\ UNCHANGED <<arbVars, applyVars, kernelVars, scanVars, streamVars, treeVars, chaosVars>>

\* VulpesFuzzyMatcher::clear_cache()
FuzzyClearCache ==
    /\ query_cache' = [map |-> <<>>, order |-> <<>>]
    /\ lookup_result' = NoLookup
    /\ UNCHANGED <<terms, config, exact_terms, deletion_index, phonetic_index>>
    /\ UNCHANGED <<arbVars, applyVars, kernelVars, scanVars, streamVars, treeVars, chaosVars>>

FuzzyNext ==
    \/ \E query \in Strings(FuzzyAlphabet, MaxQueryLen) \cup {Patrica} : FuzzyLookup(query)
    \/ FuzzyClearCache

SpecFuzzy == FuzzyInit /\ [][FuzzyNext]_vars

\* the dictionary as the matcher holds it: the terms, lower-cased and trimmed, that are
\* at least min_term_length long
NormalizedTerms ==
    {t \in {normalize(terms[i]) : i \in DOMAIN terms} : Len(t) >= config.min_term_length}

\* C20 as stated: whenever lookup reports a match, the returned term is a member of the
\* term list T the matcher was built from.
C20_TermInDictionary ==
    lookup_result.matched => lookup_result.term[1] \in Range(terms)

\* C20: whenever lookup reports a match (exact, deletion, phonetic, fresh or cached), the
\* returned term is the normalized form (lower-cased, trimmed) of a member of T that is at
\* least min_term_length long; it is a member of T when every term of T is normalized.
C20_TermInNormalizedDictionary ==
    lookup_result.matched =>
        /\ lookup_result.term # <<>>
        /\ lookup_result.term[1] \in NormalizedTerms
        /\ (\A i \in DOMAIN terms : normalize(terms[i]) = terms[i])
              => lookup_result.term[1] \in Range(terms)

\* a match by the phonetic fallback, served from the cache
C20_Witness ==
    /\ lookup_result.matched
    /\ lookup_result.cached
    /\ lookup_result.match_type = "PHONETIC"
    /\ lookup_result.term[1] \in NormalizedTerms

\* the matcher built from the dictionary {"patricia"} under the default edit distance (2),
\* phonetic fallback and minimum term length (3) has just looked up "patrica"
PatricaLookedUp ==
    /\ terms = <<Patricia>>
    /\ config.max_edit_distance = 2
    /\ lookup_result.query = Patrica

\* C21: with dictionary {"patricia"}, lookup("patrica") returns term patricia, distance 1,
\* match type DELETE_1 and a confidence strictly greater than 0.9.
C21_PatricaConfidence ==
    PatricaLookedUp =>
        /\ lookup_result.term = <<Patricia>>
        /\ lookup_result.distance = 1
        /\ lookup_result.match_type = "DELETE_1"
        /\ 10 * lookup_result.confidence[1] > 9 * lookup_result.confidence[2]

\* what the code returns for it: the same term, distance and match type, with the
\* confidence (0.875 + 4 * 0.1 * 0.125) * 0.92 = 0.851
C21_PatricaReturned ==
    PatricaLookedUp =>
        /\ lookup_result.term = <<Patricia>>
        /\ lookup_result.distance = 1
        /\ lookup_result.match_type = "DELETE_1"
        /\ 1000 * lookup_result.confidence[1] = 851 * lookup_result.confidence[2]

(***************************************************************************)
(* Chaos-analysis cache: chaos.rs, AnalysisCache behind ANALYSIS_CACHE.    *)
(* analyze_chaos looks the first 500 characters of the text up and, on a   *)
(* miss, computes the analysis and inserts it.  The ChaosAnalysis of a     *)
(* text is represented by the length of the text it was computed from.     *)
(* cache_used is kept beside the cache: the cached keys in the order of    *)
(* their last use, where an insert and a hit both count as a use.          *)
(***************************************************************************)
\* number of distinct short texts analysed one after the other from an empty cache before
\* the texts of ProbeTexts are analysed in any order
Warmup == 98

\* the text of n letters
FreshText(n) == [i \in 1..n |-> "a"]

\* a text of 501 characters, the last one ch
LongText(ch) == [i \in 1..501 |-> IF i <= 500 THEN "a" ELSE ch]

\* the first text analysed, two texts not analysed before, two long texts that agree on
\* their first 500 characters
ProbeTexts == {FreshText(1), FreshText(Warmup + 1), FreshText(Warmup + 2),
               LongText("b"), LongText("c")}

\* analyze_chaos: text.chars().take(500).collect()
cache_key(text) == Sub(text, 1, Min(500, Len(text)))

\* AnalysisCache::insert: the keys removed by the eviction loop
evicted_by(c, key) ==
    IF Cardinality(DOMAIN c.cache) >= c.max_size /\ key \notin DOMAIN c.cache
    THEN Range(Sub(c.order, 1, Min(20, Len(c.order))))
    ELSE {}

\* AnalysisCache::insert(key, value): the cache afterwards
cache_insert(c, key, value) ==
    LET gone == evicted_by(c, key)
        kept == DOMAIN c.cache \ gone
        rest == IF gone = {} THEN c.order
                ELSE Sub(c.order, Min(20, Len(c.order)) + 1, Len(c.order))
    IN  [c EXCEPT !.cache = [k \in kept \cup {key} |-> IF k = key THEN value ELSE c.cache[k]],
                  !.order = IF key \in kept THEN rest ELSE Append(rest, key)]

\* the lazy_static ANALYSIS_CACHE at program start
ChaosInit ==
    /\ ArbIdle
    /\ ApplyIdle
    /\ KernelIdle
    /\ ScanIdle
    /\ StreamIdle
    /\ TreeIdle
    /\ FuzzyIdle
    /\ ChaosIdle

\* analyze_chaos(text)
AnalyzeChaos(text) ==
    /\ text \in (IF analysed < Warmup THEN {FreshText(analysed + 1)} ELSE ProbeTexts)
    /\ analysed' = Min(analysed + 1, Warmup)
    /\ \E key \in {cache_key(text)} :
          IF key \in DOMAIN analysis_cache.cache
          THEN /\ UNCHANGED analysis_cache
               /\ cache_used' = SelectSeq(cache_used, LAMBDA k : k # key) \o <<key>>
               /\ chaos_call' = [text |-> text, hit |-> TRUE, evicted |-> {}, least_recent |-> {}]
          ELSE \E gone \in {evicted_by(analysis_cache, key)} :
                  /\ analysis_cache' = cache_insert(analysis_cache, key, Len(text))
                  /\ cache_used' = SelectSeq(cache_used, LAMBDA k : k \notin gone) \o <<key>>
                  /\ chaos_call' = [text |-> text, hit |-> FALSE, evicted |-> gone,
                                    least_recent |->
                                        IF gone = {} THEN {}
                                        ELSE Range(Sub(cache_used, 1, Min(20, Len(cache_used))))]
    /\ UNCHANGED <<arbVars, applyVars, kernelVars, scanVars, streamVars, treeVars, fuzzyVars>>

\* clear_chaos_cache()
ClearChaosCache ==
    /\ analysis_cache' = [analysis_cache EXCEPT !.cache = <<>>, !.order = <<>>]
    /\ cache_used' = <<>>
    /\ analysed' = 0
    /\ chaos_call' = NoChaosCall
    /\ UNCHANGED <<arbVars, applyVars, kernelVars, scanVars, streamVars, treeVars, fuzzyVars>>

ChaosNext ==
    \/ \E text \in {FreshText(n) : n \in 1..Warmup} \cup ProbeTexts : AnalyzeChaos(text)
    \/ ClearChaosCache

SpecChaos == ChaosInit /\ [][ChaosNext]_vars

\* C22: the cache never holds more than 100 entries, and when an insert finds it full the
\* entries it evicts are the 20 least recently used ones, a cache hit counting as a use.
C22_LruCapacity ==
    /\ Cardinality(DOMAIN analysis_cache.cache) <= 100
    /\ chaos_call.evicted # {} =>
          /\ Cardinality(chaos_call.evicted) = 20
          /\ chaos_call.evicted = chaos_call.least_recent

\* what the code keeps: at most 100 entries, the order of first insertion in `order`, and
\* an eviction of the 20 entries inserted first, whatever was looked up since
C22_EvictsOldestInserted ==
    /\ Cardinality(DOMAIN analysis_cache.cache) <= 100
    /\ Range(analysis_cache.order) = DOMAIN analysis_cache.cache
    /\ Len(analysis_cache.order) = Cardinality(DOMAIN analysis_cache.cache)
    /\ Range(cache_used) = DOMAIN analysis_cache.cache
    /\ chaos_call.evicted # {} => Cardinality(chaos_call.evicted) = 20

====
